---- MODULE Spec2Model ----
(***************************************************************************)
(* Model of the retrieval subsystem of the RAG notes application:          *)
(*   - VectorStore (backend/services/vectorStore.js, kept in the tail of   *)
(*     src/backend/services/llmService.js, lines 505-908),                 *)
(*   - the note controllers that drive it (notesController.js) and         *)
(*   - the search controller's reindexAll (src/unnamed/part_005).          *)
(*                                                                         *)
(* A JavaScript Map is a sequence of entries [k, v] in insertion order.    *)
(* An optional value (a missing argument, a missing object key) is a set   *)
(* with at most one element: {} is "undefined", {x} is the value x.        *)
(* Vector elements are small integers standing for finite doubles; scores  *)
(* are compared exactly (see ScoreGE), abstracting floating-point rounding.*)
(***************************************************************************)
EXTENDS Integers, Sequences, FiniteSets, TLC

VARIABLES
    vectors,     \* VectorStore.vectors   : Map id -> number[]
    metadata,    \* VectorStore.metadata  : Map id -> object (iteration order never observed)
    dimension,   \* VectorStore.dimension
    file,        \* <storagePath>/vectors.json on disk
    clock,       \* what new Date() returns
    calls,       \* the VectorStore method calls in flight, one record per call slot
    searchOut,   \* the outcome of the last search() call
    boots,       \* how many times the server process has been started
    faults,      \* how many I/O operations have failed so far
    notes,       \* the Note collection      : note id -> document
    embeddings,  \* the Embedding collection : note id -> association record
    tasks,       \* the detached generateNoteEmbedding pipelines and reindex per-note tasks
    reqs,        \* HTTP requests in flight in the controllers
    responses,   \* what each HTTP request answered
    hybrid,      \* hybridSearch: the two lists, the weight, the limit and the ranking
    retrieved,   \* a retrieval handler: the search result and the entities it used
    embedded,    \* generateEmbedding: the last call and the vectors returned so far
    last,        \* the last VectorStore call: its arguments and the state it found
    inserted     \* history: the ids of the records, in the order they were first inserted

vars == <<vectors, metadata, dimension, file, clock, calls, searchOut, boots, faults,
          notes, embeddings, tasks, reqs, responses, hybrid, retrieved, embedded, last,
          inserted>>

storeVars == <<vectors, metadata, dimension, file, clock, calls, searchOut, boots, faults>>
appVars == <<notes, embeddings, tasks, reqs, responses>>
queryVars == <<hybrid, retrieved, embedded, last, inserted>>

-----------------------------------------------------------------------------
(* Bounds of the model *)

MaxClock == 1
MaxCalls == 2
MaxK == 2
MaxBoots == 1
MaxFaults == 1

(* Program constants *)

DefaultTopK == 5

\* ids given to the store API: "2" is an integer-like key, "n1" is not
StoreIds == {"n1", "2"}
\* the configured dimensions (NVIDIA_EMBEDDING_DIMENSION) a process may start with
Dims == {2, 3}
\* vectors handed to addVector / updateVector: shorter than, equal to and longer than D
InputVectors == {<<1>>, <<0, 1>>, <<1, 1, 0>>}
\* vectors of the API runs: one shorter and one longer than the smallest dimension
ShortLongVectors == {<<1>>, <<1, 1, 0>>}
Categories == {"work"}
CallIds == 1..MaxCalls

-----------------------------------------------------------------------------
(* JavaScript Map *)

MapHas(m, k) == \E i \in 1..Len(m) : m[i].k = k

MapGet(m, k) == m[CHOOSE i \in 1..Len(m) : m[i].k = k].v

MapSet(m, k, v) ==
    IF MapHas(m, k)
    THEN [i \in 1..Len(m) |-> IF m[i].k = k THEN [k |-> k, v |-> v] ELSE m[i]]
    ELSE Append(m, [k |-> k, v |-> v])

MapDelete(m, k) == SelectSeq(m, LAMBDA e : e.k # k)

MapKeys(m) == {m[i].k : i \in 1..Len(m)}

-----------------------------------------------------------------------------
(* Metadata objects: { category?, addedAt?, updatedAt? } *)

NoMeta == [category |-> {}, addedAt |-> {}, updatedAt |-> {}]

\* { ...a, ...b }
Spread(a, b) ==
    [category  |-> IF b.category  # {} THEN b.category  ELSE a.category,
     addedAt   |-> IF b.addedAt   # {} THEN b.addedAt   ELSE a.addedAt,
     updatedAt |-> IF b.updatedAt # {} THEN b.updatedAt ELSE a.updatedAt]

InputMetas == {NoMeta} \cup {[NoMeta EXCEPT !.category = {c}] : c \in Categories}

-----------------------------------------------------------------------------
(* JavaScript objects built from a Map and read back: Object.fromEntries,  *)
(* JSON.stringify, JSON.parse, Object.entries.  An object is the sequence  *)
(* of its entries in property order: integer-like keys first, ascending,   *)
(* then the other keys in insertion order.  The JSON text is modelled by   *)
(* the value it denotes; numbers of vectors are finite, so the text        *)
(* denotes them exactly.                                                   *)

IndexValue == ("1" :> 1) @@ ("2" :> 2)

IsArrayIndex(k) == k \in DOMAIN IndexValue

RECURSIVE InsertByIndex(_, _)
InsertByIndex(sorted, e) ==
    IF sorted = <<>> THEN <<e>>
    ELSE IF IndexValue[e.k] < IndexValue[Head(sorted).k]
         THEN <<e>> \o sorted
         ELSE <<Head(sorted)>> \o InsertByIndex(Tail(sorted), e)

RECURSIVE SortByIndex(_)
SortByIndex(es) ==
    IF es = <<>> THEN <<>>
    ELSE InsertByIndex(SortByIndex(SubSeq(es, 1, Len(es) - 1)), es[Len(es)])

ObjectFromEntries(m) ==
    SortByIndex(SelectSeq(m, LAMBDA e : IsArrayIndex(e.k)))
        \o SelectSeq(m, LAMBDA e : ~IsArrayIndex(e.k))

\* new Map(Object.entries(obj)): the entries in the object's property order
MapFromObject(obj) == obj

-----------------------------------------------------------------------------
(* VectorStore: pure parts *)

Zeros(n) == [i \in 1..n |-> 0]

\* addVector / updateVector: pad with zeros or truncate to this.dimension
AdjustVector(vector, d) ==
    IF Len(vector) = d THEN vector
    ELSE IF Len(vector) < d THEN vector \o Zeros(d - Len(vector))
    ELSE SubSeq(vector, 1, d)

\* the object save() serialises
SnapshotData(vs, ms, d, now) ==
    [dimension |-> d,
     vectors   |-> ObjectFromEntries(vs),
     metadata  |-> ObjectFromEntries(ms),
     savedAt   |-> now]

NoSnapshot == [dimension |-> 0, vectors |-> <<>>, metadata |-> <<>>, savedAt |-> 0]

\* vectors.json: absent, a complete JSON document, or bytes that do not parse
\* (truncated by an open for writing, or two writers' bytes mixed); size stands
\* for the length of the bytes in the file
NoFile == [state |-> "absent", snap |-> NoSnapshot, size |-> 0]
TruncatedFile == [state |-> "partial", snap |-> NoSnapshot, size |-> 0]
CompleteFile(data) == [state |-> "complete", snap |-> data, size |-> 1 + Len(data.vectors)]

\* what load() assigns from a parsed document: the maps, not the dimension
LoadedVectors(parsed) == MapFromObject(parsed.vectors)

\* a load() that restores the vectors only
LoadedMetadataMutant(parsed) == <<>>

LoadedMetadata(parsed) == MapFromObject(parsed.metadata)

-----------------------------------------------------------------------------
(* VectorStore.search: pure parts *)

Min(a, b) == IF a < b THEN a ELSE b

RECURSIVE DotUpTo(_, _, _)
DotUpTo(a, b, n) == IF n = 0 THEN 0 ELSE DotUpTo(a, b, n - 1) + a[n] * b[n]

\* dotProduct: over the first min(len a, len b) positions
DotProduct(a, b) == DotUpTo(a, b, Min(Len(a), Len(b)))

MagnitudeSq(v) == DotUpTo(v, v, Len(v))

\* dotProduct(normalizeVector(q), normalizeVector(v)) as the exact real
\* num / sqrt(den); normalizeVector leaves a zero vector as it is, and the
\* product with a zero vector is 0
Score(q, v) ==
    IF MagnitudeSq(q) = 0 \/ MagnitudeSq(v) = 0
    THEN [num |-> 0, den |-> 1]
    ELSE [num |-> DotProduct(q, v), den |-> MagnitudeSq(q) * MagnitudeSq(v)]

SignedSq(x) == IF x >= 0 THEN x * x ELSE 0 - x * x

\* s >= t as real numbers
ScoreGE(s, t) == SignedSq(s.num) * t.den >= SignedSq(t.num) * s.den

\* results.sort((a, b) => b.score - a.score): stable, descending
RECURSIVE InsertByScore(_, _)
InsertByScore(sorted, r) ==
    IF sorted = <<>> THEN <<r>>
    ELSE IF ScoreGE(Head(sorted).score, r.score)
         THEN <<Head(sorted)>> \o InsertByScore(Tail(sorted), r)
         ELSE <<r>> \o sorted

RECURSIVE SortByScore(_)
SortByScore(rs) ==
    IF rs = <<>> THEN <<>>
    ELSE InsertByScore(SortByScore(SubSeq(rs, 1, Len(rs) - 1)), rs[Len(rs)])

\* const k = topK || this.topK
EffectiveK(topK) ==
    IF topK = {} \/ topK = {0} THEN DefaultTopK ELSE CHOOSE k \in topK : TRUE

NoFilter == [excludeIds |-> {}, category |-> {}]

\* the filter tests of the search loop; excludeIds is {} or {an array of ids}
Excluded(filter, id, ms) ==
    \/ \E ex \in filter.excludeIds : id \in ex
    \/ /\ filter.category # {}
       /\ ~(MapHas(ms, id) /\ MapGet(ms, id).category = filter.category)

\* one entry of the result list
ResultOf(q, e, ms) ==
    [id       |-> e.k,
     score    |-> Score(q, e.v),
     metadata |-> IF MapHas(ms, e.k) THEN MapGet(ms, e.k) ELSE NoMeta]

\* the results pushed by the loop over this.vectors.entries(), in Map order
Scanned(q, filter, vs, ms) ==
    LET kept == SelectSeq(vs, LAMBDA e : ~Excluded(filter, e.k, ms))
    IN  [i \in 1..Len(kept) |-> ResultOf(q, kept[i], ms)]

\* results.slice(0, k)
Slice(rs, k) == SubSeq(rs, 1, Min(k, Len(rs)))

SearchResults(q, topK, filter, vs, ms) ==
    Slice(SortByScore(Scanned(q, filter, vs, ms)), EffectiveK(topK))

-----------------------------------------------------------------------------
(* VectorStore: the method calls.  A call occupies a slot of `calls` from  *)
(* its start to its return; pc is the await it is suspended at.            *)

\* a slot with no call in flight keeps the outcome of the last call: "ok",
\* "threw", what removeVector returned, for load() "loaded" or, when there
\* was no file, "fresh", and for initialize() "initialized" or, when its
\* catch ran, "reset"
IdleCall(out) == [pc |-> "idle", data |-> NoSnapshot, out |-> out]

\* the call is suspended at save()'s first await, fs.mkdir
InSave(out) == [pc |-> "mkdir", data |-> NoSnapshot, out |-> out]

NoSearch == [out |-> "none", q |-> <<>>, topK |-> {}, filter |-> NoFilter, results |-> <<>>]

\* an addVector that sets the vector and awaits save() before it sets the
\* metadata: the metadata of the id is still what it was
AddVectorMutant(c, id, vector, meta) ==
    /\ calls[c].pc = "idle"
    /\ IF id = "" \/ vector = {}
       THEN /\ calls' = [calls EXCEPT ![c] = IdleCall("threw")]
            /\ UNCHANGED <<vectors, metadata>>
       ELSE LET v == CHOOSE x \in vector : TRUE
                processedVector == AdjustVector(v, dimension)
            IN  /\ vectors' = MapSet(vectors, id, processedVector)
                /\ UNCHANGED metadata
                /\ calls' = [calls EXCEPT ![c] = InSave("ok")]
    /\ UNCHANGED <<dimension, file, clock, searchOut, boots, faults>>

\* addVector(id, vector, meta): id is "" when missing, vector is {} when missing
AddVector(c, id, vector, meta) ==
    /\ calls[c].pc = "idle"
    /\ IF id = "" \/ vector = {}
       THEN /\ calls' = [calls EXCEPT ![c] = IdleCall("threw")]
            /\ UNCHANGED <<vectors, metadata>>
       ELSE LET v == CHOOSE x \in vector : TRUE
                processedVector == AdjustVector(v, dimension)
            IN  /\ vectors' = MapSet(vectors, id, processedVector)
                /\ metadata' = MapSet(metadata, id,
                                      Spread(meta, [NoMeta EXCEPT !.addedAt = {clock}]))
                /\ calls' = [calls EXCEPT ![c] = InSave("ok")]
    /\ UNCHANGED <<dimension, file, clock, searchOut, boots, faults>>

\* an updateVector that sets the metadata as addVector does
UpdateVectorMutant(c, id, vector, meta) == AddVector(c, id, vector, meta)

\* updateVector(id, vector, meta)
UpdateVector(c, id, vector, meta) ==
    IF ~MapHas(vectors, id)
    THEN AddVector(c, id, vector, meta)
    ELSE /\ calls[c].pc = "idle"
         /\ IF vector = {}
            THEN /\ calls' = [calls EXCEPT ![c] = IdleCall("threw")]
                 /\ UNCHANGED <<vectors, metadata>>
            ELSE LET v == CHOOSE x \in vector : TRUE
                     processedVector == AdjustVector(v, dimension)
                     existingMeta == IF MapHas(metadata, id)
                                     THEN MapGet(metadata, id) ELSE NoMeta
                 IN  /\ vectors' = MapSet(vectors, id, processedVector)
                     /\ metadata' = MapSet(metadata, id,
                            Spread(Spread(existingMeta, meta),
                                   [NoMeta EXCEPT !.updatedAt = {clock}]))
                     /\ calls' = [calls EXCEPT ![c] = InSave("ok")]
         /\ UNCHANGED <<dimension, file, clock, searchOut, boots, faults>>

\* a removeVector that saves whether or not a record was deleted
RemoveVectorMutant(c, id) ==
    /\ calls[c].pc = "idle"
    /\ vectors' = MapDelete(vectors, id)
    /\ metadata' = MapDelete(metadata, id)
    /\ calls' = [calls EXCEPT ![c] =
                    IF MapHas(vectors, id) THEN InSave("true") ELSE InSave("false")]
    /\ UNCHANGED <<dimension, file, clock, searchOut, boots, faults>>

\* removeVector(id): saves only when a record was deleted; returns `deleted`
RemoveVector(c, id) ==
    /\ calls[c].pc = "idle"
    /\ vectors' = MapDelete(vectors, id)
    /\ metadata' = MapDelete(metadata, id)
    /\ calls' = [calls EXCEPT ![c] =
                    IF MapHas(vectors, id)
                    THEN InSave("true")
                    ELSE IdleCall("false")]
    /\ UNCHANGED <<dimension, file, clock, searchOut, boots, faults>>

\* clear()
Clear(c) ==
    /\ calls[c].pc = "idle"
    /\ vectors' = <<>>
    /\ metadata' = <<>>
    /\ calls' = [calls EXCEPT ![c] = InSave("ok")]
    /\ UNCHANGED <<dimension, file, clock, searchOut, boots, faults>>

\* save() called on its own
Save(c) ==
    /\ calls[c].pc = "idle"
    /\ calls' = [calls EXCEPT ![c] = InSave("ok")]
    /\ UNCHANGED <<vectors, metadata, dimension, file, clock, searchOut, boots, faults>>

\* save(): fs.mkdir resolved; the snapshot is built from the maps as they are
\* now and fs.writeFile is started
SaveBuild(c) ==
    /\ calls[c].pc = "mkdir"
    /\ calls' = [calls EXCEPT ![c].pc = "open",
                              ![c].data = SnapshotData(vectors, metadata, dimension, clock)]
    /\ UNCHANGED <<vectors, metadata, dimension, file, clock, searchOut, boots, faults>>

\* fs.writeFile: the file is opened for writing, which truncates it
WriteOpen(c) ==
    /\ calls[c].pc = "open"
    /\ file' = TruncatedFile
    /\ calls' = [calls EXCEPT ![c].pc = "write"]
    /\ UNCHANGED <<vectors, metadata, dimension, clock, searchOut, boots, faults>>

\* what the file holds after `data` is written from offset 0 over `f`: the
\* document, unless bytes of a longer document written meanwhile by another
\* writer remain behind it
Written(f, data, whole) ==
    IF whole THEN CompleteFile(data) ELSE [f EXCEPT !.state = "partial"]

WholeChoices(f, data) ==
    IF CompleteFile(data).size > f.size THEN {TRUE}
    ELSE IF CompleteFile(data).size < f.size THEN {FALSE}
    ELSE IF f.state = "complete" /\ f.snap = data THEN {TRUE}
    ELSE BOOLEAN

\* fs.writeFile: the document is written and the call returns
WriteData(c) ==
    /\ calls[c].pc = "write"
    /\ \E whole \in WholeChoices(file, calls[c].data) :
          file' = Written(file, calls[c].data, whole)
    /\ calls' = [calls EXCEPT ![c] = IdleCall(calls[c].out)]
    /\ UNCHANGED <<vectors, metadata, dimension, clock, searchOut, boots, faults>>

\* save(): fs.mkdir or fs.writeFile rejects; save logs and rethrows, and the
\* method that awaited it rejects.  The file is left as it is.
SaveThrows(c) ==
    /\ calls[c].pc \in {"mkdir", "open", "write"}
    /\ faults < MaxFaults
    /\ faults' = faults + 1
    /\ calls' = [calls EXCEPT ![c] = IdleCall("threw")]
    /\ UNCHANGED <<vectors, metadata, dimension, file, clock, searchOut, boots>>

\* load(): suspended at fs.readFile
Load(c) ==
    /\ calls[c].pc = "idle"
    /\ calls' = [calls EXCEPT ![c] = [pc |-> "read", data |-> NoSnapshot, out |-> "ok"]]
    /\ UNCHANGED <<vectors, metadata, dimension, file, clock, searchOut, boots, faults>>

\* load(): the file is read.  ENOENT is logged and load returns; bytes that do
\* not parse make JSON.parse throw, which load rethrows.
LoadRead(c) ==
    /\ calls[c].pc = "read"
    /\ calls' = [calls EXCEPT ![c] =
          CASE file.state = "absent"   -> IdleCall("fresh")
            [] file.state = "partial"  -> IdleCall("threw")
            [] file.state = "complete" -> [pc |-> "parsed", data |-> file.snap,
                                           out |-> "ok"]]
    /\ UNCHANGED <<vectors, metadata, dimension, file, clock, searchOut, boots, faults>>

\* load(): the maps are replaced by the parsed document's
LoadAssign(c) ==
    /\ calls[c].pc = "parsed"
    /\ vectors' = LoadedVectors(calls[c].data)
    /\ metadata' = LoadedMetadata(calls[c].data)
    /\ calls' = [calls EXCEPT ![c] = IdleCall("loaded")]
    /\ UNCHANGED <<dimension, file, clock, searchOut, boots, faults>>

\* initialize(): suspended at fs.mkdir
Initialize(c) ==
    /\ calls[c].pc = "idle"
    /\ calls' = [calls EXCEPT ![c] = [pc |-> "imkdir", data |-> NoSnapshot, out |-> "ok"]]
    /\ UNCHANGED <<vectors, metadata, dimension, file, clock, searchOut, boots, faults>>

\* initialize(): fs.mkdir resolved and load() is awaited; or it rejected, and
\* the catch logs a warning and replaces the maps by empty ones
InitializeLoad(c) ==
    /\ calls[c].pc = "imkdir"
    /\ \/ /\ calls' = [calls EXCEPT ![c].pc = "iread"]
          /\ UNCHANGED <<vectors, metadata, faults>>
       \/ /\ faults < MaxFaults
          /\ faults' = faults + 1
          /\ vectors' = <<>>
          /\ metadata' = <<>>
          /\ calls' = [calls EXCEPT ![c] = IdleCall("reset")]
    /\ UNCHANGED <<dimension, file, clock, searchOut, boots>>

\* initialize(): load() has read the file.  With no file load() returns and
\* initialize() logs the size of the maps; bytes that do not parse make
\* load() throw, and the catch of initialize() logs a warning and replaces
\* the maps by empty ones: initialize() returns.
InitializeRead(c) ==
    /\ calls[c].pc = "iread"
    /\ CASE file.state = "absent" ->
              /\ calls' = [calls EXCEPT ![c] = IdleCall("initialized")]
              /\ UNCHANGED <<vectors, metadata>>
         [] file.state = "partial" ->
              /\ vectors' = <<>>
              /\ metadata' = <<>>
              /\ calls' = [calls EXCEPT ![c] = IdleCall("reset")]
         [] file.state = "complete" ->
              /\ calls' = [calls EXCEPT ![c] = [pc |-> "iparsed", data |-> file.snap,
                                                out |-> "ok"]]
              /\ UNCHANGED <<vectors, metadata>>
    /\ UNCHANGED <<dimension, file, clock, searchOut, boots, faults>>

\* initialize(): load() replaces the maps by the parsed document's and
\* returns; initialize() logs and returns
InitializeAssign(c) ==
    /\ calls[c].pc = "iparsed"
    /\ vectors' = LoadedVectors(calls[c].data)
    /\ metadata' = LoadedMetadata(calls[c].data)
    /\ calls' = [calls EXCEPT ![c] = IdleCall("initialized")]
    /\ UNCHANGED <<dimension, file, clock, searchOut, boots, faults>>

\* what a process started after a crash holds once it has restored the store
\* from the file: the constructor's empty maps when there is no file or the
\* file does not parse, else the maps load() assigns
RestoredVectors ==
    IF file.state = "complete" THEN LoadedVectors(file.snap) ELSE <<>>

RestoredMetadata ==
    IF file.state = "complete" THEN LoadedMetadata(file.snap) ELSE <<>>

\* search(queryVector, topK, filter): no await inside, one step
Search(q, topK, filter) ==
    /\ searchOut' =
          IF q = <<>>
          THEN [NoSearch EXCEPT !.out = "threw", !.topK = topK, !.filter = filter]
          ELSE [out |-> "ok", q |-> q, topK |-> topK, filter |-> filter,
                results |-> SearchResults(q, topK, filter, vectors, metadata)]
    /\ UNCHANGED <<vectors, metadata, dimension, file, clock, calls, boots, faults>>

\* the caller has taken the result of its search
SearchReturned ==
    /\ searchOut # NoSearch
    /\ searchOut' = NoSearch
    /\ UNCHANGED <<vectors, metadata, dimension, file, clock, calls, boots, faults>>

\* new Date() moves on
Tick ==
    /\ clock < MaxClock
    /\ clock' = clock + 1
    /\ UNCHANGED <<vectors, metadata, dimension, file, calls, searchOut, boots, faults>>

\* The process ends (a crash or a shutdown, calls in flight are lost) and a
\* new one starts with dimension d configured: the module is loaded, the
\* constructor runs, and the server starts listening.  Nothing on the start
\* path calls initialize(), so the file is not read.
StartProcess(d) ==
    /\ boots < MaxBoots
    /\ boots' = boots + 1
    /\ vectors' = <<>>
    /\ metadata' = <<>>
    /\ dimension' = d
    /\ calls' = [c \in CallIds |-> IdleCall("none")]
    /\ searchOut' = NoSearch
    /\ UNCHANGED <<file, clock, faults>>

\* getVector(id): this.vectors.get(id) || null
GetVector(id) == IF MapHas(vectors, id) THEN {MapGet(vectors, id)} ELSE {}

\* the record of a call of the store API: the method, its arguments, and the
\* maps, the file and the time it found
NoLast == [op |-> "none", id |-> "", vector |-> {}, meta |-> NoMeta,
           vectors |-> <<>>, metadata |-> <<>>, file |-> NoFile, clock |-> 0]

Called(op, id, vector, meta) ==
    last' = [op |-> op, id |-> id, vector |-> vector, meta |-> meta,
             vectors |-> vectors, metadata |-> metadata, file |-> file, clock |-> clock]

\* the history of insertions: an id that gets a record is put last, unless
\* it has one (Map.set keeps the place of an existing key); an id whose
\* record is deleted is taken out
Inserted(id) ==
    inserted' = IF \E i \in 1..Len(inserted) : inserted[i] = id
                THEN inserted
                ELSE Append(inserted, id)

Removed(id) == inserted' = SelectSeq(inserted, LAMBDA x : x # id)

-----------------------------------------------------------------------------
(* The controllers.  An async function is cut at its awaits: one step is   *)
(* the effect of the awaited operation together with the code that runs    *)
(* when it resolves, up to the next await.  The activity in slot t of      *)
(* `tasks` makes its VectorStore calls in slot t of `calls`.               *)

NoteIds == {"n1", "n2"}
Contents == {"c1", "c2"}

\* embeddingService.generateEmbedding(content): a vector of the configured
\* dimension, the same for the same text
EmbeddingOf(content) == IF content = "c1" THEN <<1, 0>> ELSE <<0, 1>>

\* crypto.createHash('md5').update(content).digest('hex')
Md5(content) == <<"md5", content>>

\* a note document: state is "none" (never created), "live" or "deleted"
NoNote == [state |-> "none", content |-> "", hasEmbedding |-> FALSE, isArchived |-> FALSE]

NoResponse == [status |-> "none", content |-> ""]

\* the reindexAll request: pc is "idle" when none is in flight
NoReindex == [pc |-> "idle", list |-> <<>>, i |-> 0, processed |-> 0, errors |-> 0,
              log |-> {}, response |-> "none"]

IdleTask(out) == [kind |-> "none", pc |-> "idle", id |-> "", content |-> "", out |-> out]

Running(kind, pc, id, content) ==
    [kind |-> kind, pc |-> pc, id |-> id, content |-> content, out |-> "none"]

Free(t) == tasks[t].pc = "idle" /\ calls[t].pc = "idle"

\* a request is served in the lowest free slot (the slots are interchangeable)
Slot(t) == Free(t) /\ \A u \in CallIds : u < t => ~Free(u)

\* the VectorStore call of activity t has returned / has thrown
CallReturned(t) == calls[t].pc = "idle" /\ calls[t].out # "threw"
CallThrew(t) == calls[t].pc = "idle" /\ calls[t].out = "threw"

\* an awaited collaborator (embedding service, MongoDB) rejects
Fault == faults < MaxFaults /\ faults' = faults + 1

storeFrame == <<vectors, metadata, dimension, file, clock, calls, searchOut, boots>>

\* createNote: Note.create resolved; generateNoteEmbedding is started and not
\* awaited; 201 is sent with the note
CreateNote(t, id, content) ==
    /\ notes[id].state = "none"
    /\ Slot(t)
    /\ notes' = [notes EXCEPT ![id] =
                    [state |-> "live", content |-> content, hasEmbedding |-> FALSE,
                     isArchived |-> FALSE]]
    /\ tasks' = [tasks EXCEPT ![t] = Running("pipeline", "embed", id, content)]
    /\ responses' = [responses EXCEPT ![id] = [status |-> "201", content |-> content]]
    /\ UNCHANGED <<embeddings, reqs, faults>>
    /\ UNCHANGED storeFrame

\* updateNote with a content in the body: 404 when the note is not found;
\* else the note is saved, generateNoteEmbedding is started (not awaited)
\* when the content changed, and 200 is sent with the note
UpdateNote(t, id, content) ==
    /\ Slot(t)
    /\ IF notes[id].state # "live"
       THEN /\ responses' = [responses EXCEPT ![id] = [status |-> "404", content |-> ""]]
            /\ UNCHANGED <<notes, tasks>>
       ELSE /\ notes' = [notes EXCEPT ![id].content = content]
            /\ tasks' = IF content # notes[id].content
                        THEN [tasks EXCEPT ![t] = Running("pipeline", "embed", id, content)]
                        ELSE tasks
            /\ responses' = [responses EXCEPT ![id] =
                               [status |-> "200", content |-> content]]
    /\ UNCHANGED <<embeddings, reqs, faults>>
    /\ UNCHANGED storeFrame

\* generateNoteEmbedding: the embedding resolved; Embedding.findOneAndUpdate
\* is issued
PipelineEmbedded(t) ==
    /\ tasks[t].kind = "pipeline" /\ tasks[t].pc = "embed"
    /\ tasks' = [tasks EXCEPT ![t].pc = "upsert"]
    /\ UNCHANGED <<notes, embeddings, reqs, responses, faults>>
    /\ UNCHANGED storeFrame

\* a pipeline that sets hasEmbedding together with the association record
PipelineUpsertedMutant(t) ==
    /\ tasks[t].kind = "pipeline" /\ tasks[t].pc = "upsert"
    /\ embeddings' = [embeddings EXCEPT ![tasks[t].id] = {Md5(tasks[t].content)}]
    /\ AddVector(t, tasks[t].id, {EmbeddingOf(tasks[t].content)}, NoMeta)
    /\ tasks' = [tasks EXCEPT ![t].pc = "addVector"]
    /\ notes' = IF notes[tasks[t].id].state = "live"
                THEN [notes EXCEPT ![tasks[t].id].hasEmbedding = TRUE]
                ELSE notes
    /\ UNCHANGED <<reqs, responses>>

\* generateNoteEmbedding: the association record is upserted; addVector is
\* called (the maps are set, save() is awaited)
PipelineUpserted(t) ==
    /\ tasks[t].kind = "pipeline" /\ tasks[t].pc = "upsert"
    /\ embeddings' = [embeddings EXCEPT ![tasks[t].id] = {Md5(tasks[t].content)}]
    /\ AddVector(t, tasks[t].id, {EmbeddingOf(tasks[t].content)}, NoMeta)
    /\ tasks' = [tasks EXCEPT ![t].pc = "addVector"]
    /\ UNCHANGED <<notes, reqs, responses>>

\* generateNoteEmbedding: addVector returned; Note.findByIdAndUpdate is issued
PipelineAdded(t) ==
    /\ tasks[t].kind = "pipeline" /\ tasks[t].pc = "addVector"
    /\ CallReturned(t)
    /\ tasks' = [tasks EXCEPT ![t].pc = "flag"]
    /\ UNCHANGED <<notes, embeddings, reqs, responses, faults>>
    /\ UNCHANGED storeFrame

\* generateNoteEmbedding: hasEmbedding is set on the note, if it is still
\* there; the pipeline is done
PipelineFlagged(t) ==
    /\ tasks[t].kind = "pipeline" /\ tasks[t].pc = "flag"
    /\ notes' = IF notes[tasks[t].id].state = "live"
                THEN [notes EXCEPT ![tasks[t].id].hasEmbedding = TRUE]
                ELSE notes
    /\ tasks' = [tasks EXCEPT ![t] = IdleTask("done")]
    /\ UNCHANGED <<embeddings, reqs, responses, faults>>
    /\ UNCHANGED storeFrame

\* a pipeline awaited inside the request's try: its failure reaches next()
PipelineFailsMutant(t) ==
    /\ tasks[t].kind = "pipeline"
    /\ \/ tasks[t].pc \in {"embed", "upsert", "flag"} /\ Fault
       \/ tasks[t].pc = "addVector" /\ CallThrew(t) /\ UNCHANGED faults
    /\ tasks' = [tasks EXCEPT ![t] = IdleTask("failed")]
    /\ responses' = [responses EXCEPT ![tasks[t].id] = [status |-> "500", content |-> ""]]
    /\ UNCHANGED <<notes, embeddings, reqs>>
    /\ UNCHANGED storeFrame

\* generateNoteEmbedding: the awaited step rejects; the error is logged and
\* rethrown to the caller's .catch, which logs it
PipelineFails(t) ==
    /\ tasks[t].kind = "pipeline"
    /\ \/ tasks[t].pc \in {"embed", "upsert", "flag"} /\ Fault
       \/ tasks[t].pc = "addVector" /\ CallThrew(t) /\ UNCHANGED faults
    /\ tasks' = [tasks EXCEPT ![t] = IdleTask("failed")]
    /\ UNCHANGED <<notes, embeddings, reqs, responses>>
    /\ UNCHANGED storeFrame

\* deleteNote: 404 when the note is not found; else removeVector is called
DeleteNote(t, id) ==
    /\ Slot(t)
    /\ IF notes[id].state # "live"
       THEN /\ responses' = [responses EXCEPT ![id] = [status |-> "404", content |-> ""]]
            /\ UNCHANGED <<tasks, faults>>
            /\ UNCHANGED storeFrame
       ELSE /\ RemoveVector(t, id)
            /\ tasks' = [tasks EXCEPT ![t] = Running("delete", "removeVector", id, "")]
            /\ UNCHANGED responses
    /\ UNCHANGED <<notes, embeddings, reqs>>

\* a deleteNote without the inner try: a removeVector that throws reaches next()
DeleteRemovedMutant(t) ==
    /\ tasks[t].kind = "delete" /\ tasks[t].pc = "removeVector"
    /\ calls[t].pc = "idle"
    /\ IF CallThrew(t)
       THEN /\ tasks' = [tasks EXCEPT ![t] = IdleTask("failed")]
            /\ responses' = [responses EXCEPT ![tasks[t].id] =
                               [status |-> "500", content |-> ""]]
       ELSE /\ tasks' = [tasks EXCEPT ![t].pc = "embDelete"]
            /\ UNCHANGED responses
    /\ UNCHANGED <<notes, embeddings, reqs, faults>>
    /\ UNCHANGED storeFrame

\* deleteNote: removeVector returned and Embedding.deleteByNoteId is issued;
\* or it threw, which the inner catch logs, and Note.deleteOne is issued
DeleteRemoved(t) ==
    /\ tasks[t].kind = "delete" /\ tasks[t].pc = "removeVector"
    /\ calls[t].pc = "idle"
    /\ tasks' = [tasks EXCEPT ![t].pc = IF CallThrew(t) THEN "noteDelete" ELSE "embDelete"]
    /\ UNCHANGED <<notes, embeddings, reqs, responses, faults>>
    /\ UNCHANGED storeFrame

\* deleteNote: the association records of the note are deleted, or the
\* deletion rejects and the inner catch logs it; Note.deleteOne is issued
DeleteEmbeddingDeleted(t) ==
    /\ tasks[t].kind = "delete" /\ tasks[t].pc = "embDelete"
    /\ \/ embeddings' = [embeddings EXCEPT ![tasks[t].id] = {}] /\ UNCHANGED faults
       \/ Fault /\ UNCHANGED embeddings
    /\ tasks' = [tasks EXCEPT ![t].pc = "noteDelete"]
    /\ UNCHANGED <<notes, reqs, responses>>
    /\ UNCHANGED storeFrame

\* deleteNote: the note is deleted and 200 is sent; or Note.deleteOne rejects
\* and the error goes to next()
DeleteNoteDeleted(t) ==
    /\ tasks[t].kind = "delete" /\ tasks[t].pc = "noteDelete"
    /\ \/ /\ notes' = [notes EXCEPT ![tasks[t].id] = [NoNote EXCEPT !.state = "deleted"]]
          /\ responses' = [responses EXCEPT ![tasks[t].id] =
                             [status |-> "200", content |-> ""]]
          /\ tasks' = [tasks EXCEPT ![t] = IdleTask("done")]
          /\ UNCHANGED faults
       \/ /\ Fault
          /\ responses' = [responses EXCEPT ![tasks[t].id] =
                             [status |-> "500", content |-> ""]]
          /\ tasks' = [tasks EXCEPT ![t] = IdleTask("failed")]
          /\ UNCHANGED notes
    /\ UNCHANGED <<embeddings, reqs>>
    /\ UNCHANGED storeFrame

\* const batchSize = 10
BatchSize == 10

\* the ids a note may have, in the order the notes are created
AllNoteIds == <<"n1", "n2", "n3", "n4", "n5", "n6", "n7", "n8", "n9", "n10", "n11",
                "n12", "n13">>

\* the order in which Note.find({}) returns the notes of the collection
NoteOrder == SelectSeq(AllNoteIds, LAMBDA id : id \in DOMAIN notes)

\* notes.slice(i, i + batchSize), i counted from 0
Batch(list, i) == SubSeq(list, i + 1, Min(i + BatchSize, Len(list)))

\* batch.map(async (note) => ...): every callback runs up to its first await;
\* the callback of the note at position t of the list (from 1) is task t
StartBatch(batch, i) ==
    [t \in DOMAIN tasks |->
        IF t > i /\ t - i <= Len(batch)
        THEN Running("reindex", "embed", batch[t - i], notes[batch[t - i]].content)
        ELSE IdleTask("none")]

\* reindexAll is called while nothing else is in flight; Note.find is awaited
ReindexAll ==
    /\ reqs.pc = "idle"
    /\ \A t \in DOMAIN tasks : Free(t)
    /\ reqs' = [NoReindex EXCEPT !.pc = "find"]
    /\ UNCHANGED <<notes, embeddings, tasks, responses, faults>>
    /\ UNCHANGED storeFrame

\* reindexAll: Note.find resolved.  With no notes the request is answered at
\* once; else clear() is called.  Or Note.find rejects and the error goes to
\* next().
ReindexFound ==
    /\ reqs.pc = "find"
    /\ \/ LET found == SelectSeq(NoteOrder, LAMBDA id : notes[id].state = "live")
          IN  IF Len(found) = 0
              THEN /\ reqs' = [reqs EXCEPT !.pc = "idle", !.response = "No notes to reindex"]
                   /\ UNCHANGED faults
                   /\ UNCHANGED storeFrame
              ELSE /\ Clear(1)
                   /\ reqs' = [reqs EXCEPT !.pc = "clear", !.list = found]
       \/ /\ Fault
          /\ reqs' = [reqs EXCEPT !.pc = "idle", !.response = "500"]
          /\ UNCHANGED storeFrame
    /\ UNCHANGED <<notes, embeddings, tasks, responses>>

\* reindexAll: clear() returned and the first batch is started; or clear()
\* threw and the error goes to next()
ReindexCleared ==
    /\ reqs.pc = "clear"
    /\ calls[1].pc = "idle"
    /\ IF CallThrew(1)
       THEN /\ reqs' = [reqs EXCEPT !.pc = "idle", !.response = "500"]
            /\ UNCHANGED tasks
       ELSE /\ reqs' = [reqs EXCEPT !.pc = "batch"]
            /\ tasks' = StartBatch(Batch(reqs.list, 0), 0)
    /\ UNCHANGED <<notes, embeddings, responses, faults>>
    /\ UNCHANGED storeFrame

\* reindexAll, one note: the embedding resolved; addVector is called
ReindexEmbedded(t) ==
    /\ tasks[t].kind = "reindex" /\ tasks[t].pc = "embed"
    /\ AddVector(t, tasks[t].id, {EmbeddingOf(tasks[t].content)}, NoMeta)
    /\ tasks' = [tasks EXCEPT ![t].pc = "addVector"]
    /\ UNCHANGED <<notes, embeddings, reqs, responses>>

\* reindexAll, one note: addVector returned; Embedding.findOneAndUpdate is
\* issued
ReindexAdded(t) ==
    /\ tasks[t].kind = "reindex" /\ tasks[t].pc = "addVector"
    /\ CallReturned(t)
    /\ tasks' = [tasks EXCEPT ![t].pc = "upsert"]
    /\ UNCHANGED <<notes, embeddings, reqs, responses, faults>>
    /\ UNCHANGED storeFrame

\* reindexAll, one note: the association record is upserted;
\* Note.findByIdAndUpdate is issued
ReindexUpserted(t) ==
    /\ tasks[t].kind = "reindex" /\ tasks[t].pc = "upsert"
    /\ embeddings' = [embeddings EXCEPT ![tasks[t].id] = {Md5(tasks[t].content)}]
    /\ tasks' = [tasks EXCEPT ![t].pc = "flag"]
    /\ UNCHANGED <<notes, reqs, responses, faults>>
    /\ UNCHANGED storeFrame

\* reindexAll, one note: hasEmbedding is set; processed++
ReindexFlagged(t) ==
    /\ tasks[t].kind = "reindex" /\ tasks[t].pc = "flag"
    /\ notes' = IF notes[tasks[t].id].state = "live"
                THEN [notes EXCEPT ![tasks[t].id].hasEmbedding = TRUE]
                ELSE notes
    /\ reqs' = [reqs EXCEPT !.processed = @ + 1]
    /\ tasks' = [tasks EXCEPT ![t] = IdleTask("done")]
    /\ UNCHANGED <<embeddings, responses, faults>>
    /\ UNCHANGED storeFrame

\* a catch that logs the failure of a note and does not count it
ReindexFailsMutant(t) ==
    /\ tasks[t].kind = "reindex"
    /\ \/ tasks[t].pc \in {"embed", "upsert", "flag"} /\ Fault
       \/ tasks[t].pc = "addVector" /\ CallThrew(t) /\ UNCHANGED faults
    /\ reqs' = [reqs EXCEPT !.log = @ \cup {<<tasks[t].id, tasks[t].pc>>}]
    /\ tasks' = [tasks EXCEPT ![t] = IdleTask("failed")]
    /\ UNCHANGED <<notes, embeddings, responses>>
    /\ UNCHANGED storeFrame

\* reindexAll, one note: the awaited step rejects; the catch logs the note
\* and the error, errors++
ReindexFails(t) ==
    /\ tasks[t].kind = "reindex"
    /\ \/ tasks[t].pc \in {"embed", "upsert", "flag"} /\ Fault
       \/ tasks[t].pc = "addVector" /\ CallThrew(t) /\ UNCHANGED faults
    /\ reqs' = [reqs EXCEPT !.errors = @ + 1,
                            !.log = @ \cup {<<tasks[t].id, tasks[t].pc>>}]
    /\ tasks' = [tasks EXCEPT ![t] = IdleTask("failed")]
    /\ UNCHANGED <<notes, embeddings, responses>>
    /\ UNCHANGED storeFrame

\* a loop that does not await the batch: the next batch is started while
\* callbacks of this one are still running
ReindexBatchDoneMutant ==
    /\ reqs.pc = "batch"
    /\ LET i == reqs.i + BatchSize
       IN  IF i < Len(reqs.list)
           THEN /\ reqs' = [reqs EXCEPT !.i = i]
                /\ tasks' = [t \in DOMAIN tasks |->
                                IF tasks[t].pc = "idle"
                                THEN StartBatch(Batch(reqs.list, i), i)[t]
                                ELSE tasks[t]]
           ELSE /\ \A t \in DOMAIN tasks : tasks[t].pc = "idle"
                /\ reqs' = [reqs EXCEPT !.pc = "idle", !.i = i, !.response = "200"]
                /\ UNCHANGED tasks
    /\ UNCHANGED <<notes, embeddings, responses, faults>>
    /\ UNCHANGED storeFrame

\* reindexAll: Promise.all of the batch resolved; the next batch is started,
\* or the counts are sent
ReindexBatchDone ==
    /\ reqs.pc = "batch"
    /\ \A t \in DOMAIN tasks : tasks[t].pc = "idle"
    /\ LET i == reqs.i + BatchSize
       IN  IF i < Len(reqs.list)
           THEN /\ reqs' = [reqs EXCEPT !.i = i]
                /\ tasks' = StartBatch(Batch(reqs.list, i), i)
           ELSE /\ reqs' = [reqs EXCEPT !.pc = "idle", !.i = i, !.response = "200"]
                /\ UNCHANGED tasks
    /\ UNCHANGED <<notes, embeddings, responses, faults>>
    /\ UNCHANGED storeFrame

\* the process is stopped and started again: what was in flight is gone, the
\* notes and the association records are in the database
Restart ==
    /\ StartProcess(dimension)
    /\ tasks' = [t \in CallIds |-> IdleTask("none")]
    /\ reqs' = NoReindex
    /\ UNCHANGED <<notes, embeddings, responses>>

\* a step of save() inside a VectorStore call made by a controller
StoreStep(c) ==
    /\ SaveBuild(c) \/ WriteOpen(c) \/ WriteData(c) \/ SaveThrows(c)
    /\ UNCHANGED appVars

-----------------------------------------------------------------------------
(* The search and AI controllers *)

NoHybrid == [pc |-> "none", sem |-> <<>>, lex |-> <<>>, w |-> 0, limit |-> 0, out |-> <<>>]

\* Scores of the fusion are fractions with a positive denominator: a weight
\* is given in tenths, a normalised position is (n - index) / n.
Frac(n, d) == [num |-> n, den |-> d]

FracZero == Frac(0, 1)

FracMul(a, b) == Frac(a.num * b.num, a.den * b.den)

FracAdd(a, b) == Frac(a.num * b.den + b.num * a.den, a.den * b.den)

FracGE(a, b) == a.num * b.den >= b.num * a.den

FracEq(a, b) == a.num * b.den = b.num * a.den

\* parseFloat(semanticWeight), a weight of tenths
WeightOf(w) == Frac(w, 10)

\* 1 - weight
OneMinus(a) == Frac(a.den - a.num, a.den)

\* a normalised position that counts from 1
NormalizedScoreMutant(index, n) == Frac(n - (index + 1), n)

\* 1 - (index / list.length), index counted from 0
NormalizedScore(index, n) == Frac(n - index, n)

\* normalizedScore * weight
SemanticScore(index, n, w) == FracMul(NormalizedScore(index, n), WeightOf(w))

\* normalizedScore * (1 - weight)
KeywordScore(index, n, w) == FracMul(NormalizedScore(index, n), OneMinus(WeightOf(w)))

\* semanticResults.forEach: combinedScores.set(result.id, ...)
RECURSIVE AddSemantic(_, _, _, _)
AddSemantic(m, sem, n, w) ==
    IF n = 0 THEN m
    ELSE MapSet(AddSemantic(m, sem, n - 1, w), sem[n],
                [id |-> sem[n],
                 semanticScore |-> SemanticScore(n - 1, Len(sem), w),
                 keywordScore |-> FracZero])

\* keywordResults.forEach: the keyword score is set on the entry of the id,
\* or a new entry is added
RECURSIVE AddKeyword(_, _, _, _)
AddKeyword(m, lex, n, w) ==
    IF n = 0 THEN m
    ELSE LET before == AddKeyword(m, lex, n - 1, w)
             score == KeywordScore(n - 1, Len(lex), w)
         IN  IF MapHas(before, lex[n])
             THEN MapSet(before, lex[n],
                         [MapGet(before, lex[n]) EXCEPT !.keywordScore = score])
             ELSE MapSet(before, lex[n],
                         [id |-> lex[n], semanticScore |-> FracZero, keywordScore |-> score])

\* Array.from(combinedScores.values()).map(item => ({...item, totalScore}))
WithTotals(m) ==
    [i \in 1..Len(m) |->
        [id |-> m[i].v.id,
         semanticScore |-> m[i].v.semanticScore,
         keywordScore |-> m[i].v.keywordScore,
         totalScore |-> FracAdd(m[i].v.semanticScore, m[i].v.keywordScore)]]

\* .sort((a, b) => b.totalScore - a.totalScore): stable, descending
RECURSIVE InsertByTotal(_, _)
InsertByTotal(sorted, r) ==
    IF sorted = <<>> THEN <<r>>
    ELSE IF FracGE(Head(sorted).totalScore, r.totalScore)
         THEN <<Head(sorted)>> \o InsertByTotal(Tail(sorted), r)
         ELSE <<r>> \o sorted

\* .sort((a, b) => a.totalScore - b.totalScore): ascending
SortByTotalMutant(rs) ==
    LET asc == CHOOSE p \in [1..Len(rs) -> 1..Len(rs)] :
                  /\ \A i, j \in 1..Len(rs) : i # j => p[i] # p[j]
                  /\ \A i, j \in 1..Len(rs) :
                        i < j => /\ FracGE(rs[p[j]].totalScore, rs[p[i]].totalScore)
                                 /\ FracEq(rs[p[j]].totalScore, rs[p[i]].totalScore)
                                       => p[i] < p[j]
    IN  [i \in 1..Len(rs) |-> rs[asc[i]]]

RECURSIVE SortByTotal(_)
SortByTotal(rs) ==
    IF rs = <<>> THEN <<>>
    ELSE InsertByTotal(SortByTotal(SubSeq(rs, 1, Len(rs) - 1)), rs[Len(rs)])

\* scoredResults of hybridSearch
ScoredResults(sem, lex, w, limit) ==
    Slice(SortByTotal(WithTotals(
              AddKeyword(AddSemantic(<<>>, sem, Len(sem), w), lex, Len(lex), w))),
          limit)

\* hybridSearch: the results of the two searches are combined and ranked
HybridFuse ==
    /\ hybrid.pc = "searched"
    /\ hybrid' = [hybrid EXCEPT !.pc = "ranked",
                                !.out = ScoredResults(hybrid.sem, hybrid.lex,
                                                      hybrid.w, hybrid.limit)]
    /\ UNCHANGED <<storeVars, appVars, retrieved, embedded, last, inserted>>

\* the users of the application, and the user each note was created by
\* (Note.create({ user: req.user._id, ... }), never changed afterwards)
Users == {"u1", "u2"}
NoteOwner == ("n1" :> "u1") @@ ("n2" :> "u2")

\* a retrieval request: req.user, the handler, the search result it worked
\* on and the entities it answered
NoRetrieval == [user |-> "", caller |-> "none", results |-> <<>>, out |-> <<>>]

\* Note.find({ _id: { $in: ids } }): the notes of the collection with one of
\* the ids, in the order of the collection; semanticSearch asks for those
\* with isArchived false
FindNotes(ids, unarchived) ==
    SelectSeq(NoteOrder,
              LAMBDA id : /\ id \in ids
                          /\ notes[id].state = "live"
                          /\ unarchived => ~notes[id].isArchived)

ResultIds(results) == {results[i].id : i \in 1..Len(results)}

\* searchResults.find(r => r.id === id)
ResultFor(results, id) == results[CHOOSE i \in 1..Len(results) : results[i].id = id]

\* an entity without a score, as askQuestion, chatWithNotes and
\* getRelatedNotes return it
Unscored(found) == [i \in 1..Len(found) |-> [id |-> found[i], score |-> {}]]

\* semanticSearch: the notes found, each with the score of its result, sorted
\* by that score
SemanticSearch(user, text, limit) ==
    LET results == SearchResults(EmbeddingOf(text), {limit}, NoFilter, vectors, metadata)
        found == FindNotes(ResultIds(results), TRUE)
        notesWithScores == SortByScore([i \in 1..Len(found) |->
                              [id |-> found[i],
                               score |-> ResultFor(results, found[i]).score]])
    IN  /\ retrieved' = [user |-> user, caller |-> "semanticSearch", results |-> results,
                         out |-> [i \in 1..Len(found) |->
                                     [id |-> notesWithScores[i].id,
                                      score |-> {notesWithScores[i].score}]]]
        /\ UNCHANGED <<storeVars, appVars, hybrid, embedded, last, inserted>>

\* askQuestion: the notes found are the context and the sources
AskQuestion(user, text, topK) ==
    LET similarNotes == SearchResults(EmbeddingOf(text), {topK}, NoFilter, vectors, metadata)
    IN  /\ retrieved' = [user |-> user, caller |-> "askQuestion", results |-> similarNotes,
                         out |-> Unscored(FindNotes(ResultIds(similarNotes), FALSE))]
        /\ UNCHANGED <<storeVars, appVars, hybrid, embedded, last, inserted>>

\* chatWithNotes: the notes found are the context and the sources
ChatWithNotes(user, text, topK) ==
    LET similarNotes == SearchResults(EmbeddingOf(text), {topK}, NoFilter, vectors, metadata)
    IN  /\ retrieved' = [user |-> user, caller |-> "chatWithNotes", results |-> similarNotes,
                         out |-> Unscored(FindNotes(ResultIds(similarNotes), FALSE))]
        /\ UNCHANGED <<storeVars, appVars, hybrid, embedded, last, inserted>>

\* getRelatedNotes of an existing note: limit + 1 results, without the note
\* itself, cut to limit
GetRelatedNotes(user, noteId, limit) ==
    /\ notes[noteId].state = "live"
    /\ LET similarNotes == SearchResults(EmbeddingOf(notes[noteId].content), {limit + 1},
                                         NoFilter, vectors, metadata)
           related == Slice(SelectSeq(similarNotes, LAMBDA r : r.id # noteId), limit)
       IN  retrieved' = [user |-> user, caller |-> "getRelatedNotes", results |-> related,
                         out |-> Unscored(FindNotes(ResultIds(related), FALSE))]
    /\ UNCHANGED <<storeVars, appVars, hybrid, embedded, last, inserted>>

\* Note.searchNotes(query, { limit, includeArchived: false }): the notes
\* that are not archived and match the text, best match first; a note
\* matches a query that is its content
SearchNotes(text, limit) ==
    Slice(SelectSeq(NoteOrder,
                    LAMBDA id : /\ notes[id].state = "live"
                                /\ ~notes[id].isArchived
                                /\ notes[id].content = text),
          limit)

\* hybridSearch: the semantic and the keyword results are fused, and the
\* notes of the ranked ids that Note.find returns are answered with their
\* total score, in the order of the ranking.  The handler is written from
\* its last step to its first.
\* notesWithScores: scoredResults.map(result => notes.find(...)).filter(Boolean)
HybridAnswer(user, semanticResults, scoredResults, found) ==
    LET kept == SelectSeq(scoredResults,
                          LAMBDA r : \E k \in 1..Len(found) : found[k] = r.id)
    IN  /\ retrieved' = [user |-> user, caller |-> "hybridSearch",
                         results |-> semanticResults,
                         out |-> [i \in 1..Len(kept) |->
                                     [id |-> kept[i].id, score |-> {kept[i].totalScore}]]]
        /\ UNCHANGED <<storeVars, appVars, hybrid, embedded, last, inserted>>

\* Note.find({ _id: { $in: noteIds } }): no other condition
HybridRanked(user, semanticResults, scoredResults) ==
    HybridAnswer(user, semanticResults, scoredResults,
                 FindNotes({scoredResults[i].id : i \in 1..Len(scoredResults)}, FALSE))

\* combinedScores of the two result lists, ranked and cut to the limit
HybridFused(user, semanticResults, keywordResults, limit, w) ==
    HybridRanked(user, semanticResults,
                 ScoredResults([i \in 1..Len(semanticResults) |-> semanticResults[i].id],
                               keywordResults, w, limit))

HybridSearch(user, text, limit, w) ==
    HybridFused(user,
                SearchResults(EmbeddingOf(text), {limit * 2}, NoFilter, vectors, metadata),
                SearchNotes(text, limit * 2), limit, w)

\* EmbeddingService.generateEmbedding.  A text is the sequence of its
\* character codes.
NoEmbedded == [text |-> <<>>, api |-> "none", out |-> "none", vector |-> {}, seen |-> {}]

\* Math.sin(charCode * 0.01) * 0.1, in units of 10^-5
SinE5 == (97 :> 8249) @@ (98 :> 8305)

\* the sum of the contributions to slot index (counted from 0) of the first n
\* characters of text: character i (from 0) goes to (charCode * (i + 1)) % d
RECURSIVE SlotSum(_, _, _, _)
SlotSum(text, n, index, d) ==
    IF n = 0 THEN 0
    ELSE SlotSum(text, n - 1, index, d)
         + (IF (text[n] * n) % d = index THEN SinE5[text[n]] ELSE 0)

\* generateFallbackEmbedding: the vector v / sqrt(over) of this.dimension
\* slots; a vector of magnitude 0 is left as it is
FallbackEmbedding(text, d) ==
    LET raw == [k \in 1..d |-> SlotSum(text, Len(text), k - 1, d)]
    IN  [v |-> raw, over |-> IF MagnitudeSq(raw) > 0 THEN MagnitudeSq(raw) ELSE 1]

\* what the embeddings API may do with a request: the service has no API
\* key, the API answers with an embedding, answers with an HTTP error, does
\* not answer within the timeout, or answers without data
ApiOutcomes == {"unconfigured", "ok", "error", "timeout", "nodata"}

\* an embedding as the API returns it
ApiVector == [v |-> <<3, 4>>, over |-> 25]

\* a generateEmbedding whose catch rethrows
GenerateEmbeddingMutant(text, api) ==
    /\ embedded' =
          IF text = <<>> \/ api \in {"error", "timeout", "nodata"}
          THEN [embedded EXCEPT !.text = text, !.api = api, !.out = "threw",
                                !.vector = {}]
          ELSE IF api = "ok"
          THEN [embedded EXCEPT !.text = text, !.api = api, !.out = "returned",
                                !.vector = {ApiVector}]
          ELSE [text |-> text, api |-> api, out |-> "returned",
                vector |-> {FallbackEmbedding(text, dimension)},
                seen |-> embedded.seen \cup {<<text, FallbackEmbedding(text, dimension)>>}]
    /\ UNCHANGED <<storeVars, appVars, hybrid, retrieved, last, inserted>>

\* generateEmbedding(text): throws for an empty text; returns the embedding
\* of the API when the API answers with one, the fallback embedding
\* otherwise
GenerateEmbedding(text, api) ==
    /\ embedded' =
          IF text = <<>>
          THEN [embedded EXCEPT !.text = text, !.api = api, !.out = "threw",
                                !.vector = {}]
          ELSE IF api = "ok"
          THEN [embedded EXCEPT !.text = text, !.api = api, !.out = "returned",
                                !.vector = {ApiVector}]
          ELSE [text |-> text, api |-> api, out |-> "returned",
                vector |-> {FallbackEmbedding(text, dimension)},
                seen |-> embedded.seen \cup {<<text, FallbackEmbedding(text, dimension)>>}]
    /\ UNCHANGED <<storeVars, appVars, hybrid, retrieved, last, inserted>>



-----------------------------------------------------------------------------
(* Specifications *)

\* the arguments the store API is exercised with
QueryArgs == {<<>>, <<1, 0>>, <<1, 1>>, <<0, 0, 0>>}
TopKArgs == {{}} \cup {{k} : k \in 0..MaxK}
FilterArgs == {NoFilter,
               [NoFilter EXCEPT !.excludeIds = {{"n1"}}],
               [NoFilter EXCEPT !.category = {"work"}]}

Init ==
    /\ vectors = <<>>
    /\ metadata = <<>>
    /\ dimension = 2
    /\ file = NoFile
    /\ clock = 0
    /\ calls = [c \in CallIds |-> IdleCall("none")]
    /\ searchOut = NoSearch
    /\ boots = 0
    /\ faults = 0
    /\ notes = [id \in NoteIds |-> NoNote]
    /\ embeddings = [id \in NoteIds |-> {}]
    /\ tasks = [t \in CallIds |-> IdleTask("none")]
    /\ reqs = NoReindex
    /\ responses = [id \in NoteIds |-> NoResponse]
    /\ hybrid = NoHybrid
    /\ retrieved = NoRetrieval
    /\ embedded = NoEmbedded
    /\ last = NoLast
    /\ inserted = <<>>

\* The store used through its API by one caller that awaits each call.
NextStore ==
    \/ \E id \in StoreIds, v \in ShortLongVectors, meta \in InputMetas :
          AddVector(1, id, {v}, meta) /\ UNCHANGED <<appVars, queryVars>>
    \/ \E id \in StoreIds, v \in ShortLongVectors, meta \in InputMetas :
          UpdateVector(1, id, {v}, meta) /\ UNCHANGED <<appVars, queryVars>>
    \/ \E id \in StoreIds : RemoveVector(1, id) /\ UNCHANGED <<appVars, queryVars>>
    \/ Clear(1) /\ UNCHANGED <<appVars, queryVars>>
    \/ Save(1) /\ UNCHANGED <<appVars, queryVars>>
    \/ SaveBuild(1) /\ UNCHANGED <<appVars, queryVars>>
    \/ WriteOpen(1) /\ UNCHANGED <<appVars, queryVars>>
    \/ WriteData(1) /\ UNCHANGED <<appVars, queryVars>>
    \/ SaveThrows(1) /\ UNCHANGED <<appVars, queryVars>>
    \/ Load(1) /\ UNCHANGED <<appVars, queryVars>>
    \/ LoadRead(1) /\ UNCHANGED <<appVars, queryVars>>
    \/ LoadAssign(1) /\ UNCHANGED <<appVars, queryVars>>
    \/ StartProcess(dimension) /\ UNCHANGED <<appVars, queryVars>>

SpecStore == Init /\ [][NextStore]_vars

\* The store used through its API by processes configured with different
\* dimensions, one after the other, over the same storage path.
NextDim ==
    \/ \E id \in StoreIds, v \in ShortLongVectors :
          AddVector(1, id, {v}, NoMeta) /\ UNCHANGED <<appVars, queryVars>>
    \/ \E id \in StoreIds, v \in ShortLongVectors :
          UpdateVector(1, id, {v}, NoMeta) /\ UNCHANGED <<appVars, queryVars>>
    \/ \E id \in StoreIds : RemoveVector(1, id) /\ UNCHANGED <<appVars, queryVars>>
    \/ Clear(1) /\ UNCHANGED <<appVars, queryVars>>
    \/ SaveBuild(1) /\ UNCHANGED <<appVars, queryVars>>
    \/ WriteOpen(1) /\ UNCHANGED <<appVars, queryVars>>
    \/ WriteData(1) /\ UNCHANGED <<appVars, queryVars>>
    \/ Load(1) /\ UNCHANGED <<appVars, queryVars>>
    \/ LoadRead(1) /\ UNCHANGED <<appVars, queryVars>>
    \/ LoadAssign(1) /\ UNCHANGED <<appVars, queryVars>>
    \/ Tick /\ UNCHANGED <<appVars, queryVars>>
    \/ \E d \in Dims : StartProcess(d) /\ UNCHANGED <<appVars, queryVars>>

SpecDim == Init /\ [][NextDim]_vars

\* The store filled and searched by one caller that awaits each call and
\* takes the result of a search before it goes on.
NextSearch ==
    \/ \E id \in StoreIds, v \in InputVectors, meta \in InputMetas :
          searchOut = NoSearch /\ AddVector(1, id, {v}, meta) /\ UNCHANGED <<appVars, queryVars>>
    \/ \E id \in StoreIds :
          searchOut = NoSearch /\ RemoveVector(1, id) /\ UNCHANGED <<appVars, queryVars>>
    \/ searchOut = NoSearch /\ SaveBuild(1) /\ UNCHANGED <<appVars, queryVars>>
    \/ searchOut = NoSearch /\ WriteOpen(1) /\ UNCHANGED <<appVars, queryVars>>
    \/ searchOut = NoSearch /\ WriteData(1) /\ UNCHANGED <<appVars, queryVars>>
    \/ \E q \in QueryArgs, topK \in TopKArgs, filter \in FilterArgs :
          searchOut = NoSearch /\ Search(q, topK, filter) /\ UNCHANGED <<appVars, queryVars>>
    \/ SearchReturned /\ UNCHANGED <<appVars, queryVars>>

SpecSearch == Init /\ [][NextSearch]_vars

\* The store of one server process after the other, with up to MaxCalls
\* method calls in flight at once, their file operations completing in any
\* order.  The server never calls load().
NextConc ==
    \/ \E c \in CallIds, id \in StoreIds :
          AddVector(c, id, {<<1>>}, NoMeta) /\ UNCHANGED <<appVars, queryVars>>
    \/ \E c \in CallIds, id \in StoreIds :
          UpdateVector(c, id, {<<0, 1>>}, NoMeta) /\ UNCHANGED <<appVars, queryVars>>
    \/ \E c \in CallIds, id \in StoreIds : RemoveVector(c, id) /\ UNCHANGED <<appVars, queryVars>>
    \/ \E c \in CallIds : Clear(c) /\ UNCHANGED <<appVars, queryVars>>
    \/ \E c \in CallIds : SaveBuild(c) /\ UNCHANGED <<appVars, queryVars>>
    \/ \E c \in CallIds : WriteOpen(c) /\ UNCHANGED <<appVars, queryVars>>
    \/ \E c \in CallIds : WriteData(c) /\ UNCHANGED <<appVars, queryVars>>
    \/ StartProcess(dimension) /\ UNCHANGED <<appVars, queryVars>>

SpecConc == Init /\ [][NextConc]_vars

\* the notes addressed by the requests of the notes API
EditedIds == {"n1"}

\* The notes API: notes created, edited and deleted, with the embedding
\* pipelines they start running detached.
NextApp ==
    \/ \E t \in CallIds, id \in EditedIds, content \in Contents : CreateNote(t, id, content) /\ UNCHANGED queryVars
    \/ \E t \in CallIds, id \in EditedIds, content \in Contents : UpdateNote(t, id, content) /\ UNCHANGED queryVars
    \/ \E t \in CallIds : PipelineEmbedded(t) /\ UNCHANGED queryVars
    \/ \E t \in CallIds : PipelineUpserted(t) /\ UNCHANGED queryVars
    \/ \E t \in CallIds : PipelineAdded(t) /\ UNCHANGED queryVars
    \/ \E t \in CallIds : PipelineFlagged(t) /\ UNCHANGED queryVars
    \/ \E t \in CallIds : PipelineFails(t) /\ UNCHANGED queryVars
    \/ \E t \in CallIds, id \in EditedIds : DeleteNote(t, id) /\ UNCHANGED queryVars
    \/ \E t \in CallIds : DeleteRemoved(t) /\ UNCHANGED queryVars
    \/ \E t \in CallIds : DeleteEmbeddingDeleted(t) /\ UNCHANGED queryVars
    \/ \E t \in CallIds : DeleteNoteDeleted(t) /\ UNCHANGED queryVars
    \/ \E c \in CallIds : StoreStep(c) /\ UNCHANGED queryVars
    \/ Restart /\ UNCHANGED queryVars

SpecApp == Init /\ [][NextApp]_vars

\* what the database and the store may hold for a note before a reindex:
\* nothing; a note with its records and flag; a note whose pipeline failed at
\* the embedding; the records of a note whose deletion raced with its pipeline
PriorSituations == {"absent", "indexed", "unindexed", "orphaned"}

PriorContent == ("n1" :> "c1") @@ ("n2" :> "c2")

PriorNote(id, sit) ==
    CASE sit = "indexed"   -> [state |-> "live", content |-> PriorContent[id],
                               hasEmbedding |-> TRUE, isArchived |-> FALSE]
      [] sit = "unindexed" -> [state |-> "live", content |-> PriorContent[id],
                               hasEmbedding |-> FALSE, isArchived |-> FALSE]
      [] sit = "orphaned"  -> [NoNote EXCEPT !.state = "deleted"]
      [] OTHER             -> NoNote

HasRecords(sit) == sit \in {"indexed", "orphaned"}

\* the ids that have records, in the order the records were inserted
PriorIds(sits) == SelectSeq(NoteOrder, LAMBDA id : HasRecords(sits[id]))

PriorVectors(sits) ==
    [i \in 1..Len(PriorIds(sits)) |->
        [k |-> PriorIds(sits)[i], v |-> EmbeddingOf(PriorContent[PriorIds(sits)[i]])]]

PriorMetadata(sits) ==
    [i \in 1..Len(PriorIds(sits)) |->
        [k |-> PriorIds(sits)[i], v |-> [NoMeta EXCEPT !.addedAt = {0}]]]

InitReindex ==
    \E sits \in [NoteIds -> PriorSituations] :
        /\ notes = [id \in NoteIds |-> PriorNote(id, sits[id])]
        /\ embeddings = [id \in NoteIds |->
                            IF HasRecords(sits[id]) THEN {Md5(PriorContent[id])} ELSE {}]
        /\ vectors = PriorVectors(sits)
        /\ metadata = PriorMetadata(sits)
        /\ dimension = 2
        /\ file = IF vectors = <<>> THEN NoFile
                  ELSE CompleteFile(SnapshotData(vectors, metadata, 2, 0))
        /\ clock = 0
        /\ calls = [c \in CallIds |-> IdleCall("none")]
        /\ searchOut = NoSearch
        /\ boots = 0
        /\ faults = 0
        /\ tasks = [t \in CallIds |-> IdleTask("none")]
        /\ reqs = NoReindex
        /\ responses = [id \in NoteIds |-> NoResponse]
        /\ hybrid = NoHybrid
        /\ retrieved = NoRetrieval
        /\ embedded = NoEmbedded
        /\ last = NoLast
        /\ inserted = PriorIds(sits)

\* One reindex at a time, with no other request in flight.
NextReindex ==
    \/ ReindexAll /\ UNCHANGED queryVars
    \/ ReindexFound /\ UNCHANGED queryVars
    \/ ReindexCleared /\ UNCHANGED queryVars
    \/ \E t \in CallIds : ReindexEmbedded(t) /\ UNCHANGED queryVars
    \/ \E t \in CallIds : ReindexAdded(t) /\ UNCHANGED queryVars
    \/ \E t \in CallIds : ReindexUpserted(t) /\ UNCHANGED queryVars
    \/ \E t \in CallIds : ReindexFlagged(t) /\ UNCHANGED queryVars
    \/ \E t \in CallIds : ReindexFails(t) /\ UNCHANGED queryVars
    \/ ReindexBatchDone /\ UNCHANGED queryVars
    \/ \E c \in CallIds : StoreStep(c) /\ UNCHANGED queryVars

SpecReindex == InitReindex /\ [][NextReindex]_vars

\* the ids the two searches of hybridSearch return
HybridIds == {"A", "B", "C", "D"}
MaxList == 3
MaxLimit == 4
\* semanticWeight in tenths
Weights == {0, 5, 7, 10}

\* the lists of at most MaxList ids, none twice
RankedLists ==
    {l \in UNION {[1..n -> HybridIds] : n \in 0..MaxList} :
        \A i \in 1..Len(l), j \in 1..Len(l) : i # j => l[i] # l[j]}

InitHybrid ==
    /\ vectors = <<>>
    /\ metadata = <<>>
    /\ dimension = 2
    /\ file = NoFile
    /\ clock = 0
    /\ calls = [c \in CallIds |-> IdleCall("none")]
    /\ searchOut = NoSearch
    /\ boots = 0
    /\ faults = 0
    /\ notes = [id \in NoteIds |-> NoNote]
    /\ embeddings = [id \in NoteIds |-> {}]
    /\ tasks = [t \in CallIds |-> IdleTask("none")]
    /\ reqs = NoReindex
    /\ responses = [id \in NoteIds |-> NoResponse]
    /\ \E sem \in RankedLists, lex \in RankedLists, w \in Weights, limit \in 0..MaxLimit :
          hybrid = [pc |-> "searched", sem |-> sem, lex |-> lex, w |-> w,
                    limit |-> limit, out |-> <<>>]
    /\ retrieved = NoRetrieval
    /\ embedded = NoEmbedded
    /\ last = NoLast
    /\ inserted = <<>>

\* The score fusion of hybridSearch applied to the results of its two searches.
NextHybrid == HybridFuse

SpecHybrid == InitHybrid /\ [][NextHybrid]_vars

\* what the database and the store may hold for a note when a retrieval is
\* served: nothing; a note with its records; an archived note with its
\* records; the records of a note whose deletion raced with its pipeline
RetrievalSituations == {"absent", "indexed", "archived", "orphaned"}

\* the orders in which the records may have been inserted in the store
InsertionOrders == {<<"n1", "n2">>, <<"n2", "n1">>}

Indexed(sit) == sit \in {"indexed", "archived", "orphaned"}

RetrievalNote(sit, content) ==
    IF sit \in {"indexed", "archived"}
    THEN [state |-> "live", content |-> content, hasEmbedding |-> TRUE,
          isArchived |-> (sit = "archived")]
    ELSE IF sit = "orphaned" THEN [NoNote EXCEPT !.state = "deleted"]
    ELSE NoNote

InitRetrieve ==
    \E sits \in [NoteIds -> RetrievalSituations], cont \in [NoteIds -> Contents],
       order \in InsertionOrders :
        LET ids == SelectSeq(order, LAMBDA id : Indexed(sits[id]))
        IN  /\ notes = [id \in NoteIds |-> RetrievalNote(sits[id], cont[id])]
            /\ embeddings = [id \in NoteIds |->
                                IF Indexed(sits[id]) THEN {Md5(cont[id])} ELSE {}]
            /\ vectors = [i \in 1..Len(ids) |->
                             [k |-> ids[i], v |-> EmbeddingOf(cont[ids[i]])]]
            /\ metadata = [i \in 1..Len(ids) |->
                              [k |-> ids[i], v |-> [NoMeta EXCEPT !.addedAt = {0}]]]
            /\ dimension = 2
            /\ file = IF vectors = <<>> THEN NoFile
                      ELSE CompleteFile(SnapshotData(vectors, metadata, 2, 0))
            /\ clock = 0
            /\ calls = [c \in CallIds |-> IdleCall("none")]
            /\ searchOut = NoSearch
            /\ boots = 0
            /\ faults = 0
            /\ tasks = [t \in CallIds |-> IdleTask("none")]
            /\ reqs = NoReindex
            /\ responses = [id \in NoteIds |-> NoResponse]
            /\ hybrid = NoHybrid
            /\ retrieved = NoRetrieval
            /\ embedded = NoEmbedded
            /\ last = NoLast
            /\ inserted = ids

\* The retrieval handlers, each served on a store and a collection at rest.
NextRetrieve ==
    \/ \E user \in Users, text \in Contents, limit \in 1..MaxK :
          SemanticSearch(user, text, limit)
    \/ \E user \in Users, text \in Contents, topK \in 1..MaxK :
          AskQuestion(user, text, topK)
    \/ \E user \in Users, text \in Contents, topK \in 1..MaxK :
          ChatWithNotes(user, text, topK)
    \/ \E user \in Users, noteId \in NoteIds, limit \in 1..MaxK :
          GetRelatedNotes(user, noteId, limit)
    \/ \E user \in Users, text \in Contents, limit \in 1..MaxK, w \in Weights :
          HybridSearch(user, text, limit, w)

SpecRetrieve == InitRetrieve /\ [][NextRetrieve]_vars

\* the texts given to generateEmbedding: "", "a", "ab", "ba"
TextArgs == {<<>>, <<97>>, <<97, 98>>, <<98, 97>>}

InitEmbed ==
    /\ vectors = <<>>
    /\ metadata = <<>>
    /\ dimension \in Dims
    /\ file = NoFile
    /\ clock = 0
    /\ calls = [c \in CallIds |-> IdleCall("none")]
    /\ searchOut = NoSearch
    /\ boots = 0
    /\ faults = 0
    /\ notes = [id \in NoteIds |-> NoNote]
    /\ embeddings = [id \in NoteIds |-> {}]
    /\ tasks = [t \in CallIds |-> IdleTask("none")]
    /\ reqs = NoReindex
    /\ responses = [id \in NoteIds |-> NoResponse]
    /\ hybrid = NoHybrid
    /\ retrieved = NoRetrieval
    /\ embedded = NoEmbedded
    /\ last = NoLast
    /\ inserted = <<>>

\* The embedding service asked for embeddings, the API answering or failing.
NextEmbed == \E text \in TextArgs, api \in ApiOutcomes : GenerateEmbedding(text, api)

SpecEmbed == InitEmbed /\ [][NextEmbed]_vars

\* the arguments the mutating methods are called with: an id may be empty,
\* a vector may be missing ({}) or empty
IdArgs == StoreIds \cup {""}
VectorArgs == {{}, {<<>>}, {<<1>>}}

\* The mutating methods called one after the other by a caller that awaits
\* each call, the file operations of save() succeeding or failing.
NextApi ==
    \/ \E id \in IdArgs, vector \in VectorArgs, meta \in InputMetas :
          /\ AddVector(1, id, vector, meta)
          /\ Called("addVector", id, vector, meta)
          /\ UNCHANGED <<appVars, hybrid, retrieved, embedded, inserted>>
    \/ \E id \in IdArgs, vector \in VectorArgs, meta \in InputMetas :
          /\ UpdateVector(1, id, vector, meta)
          /\ Called("updateVector", id, vector, meta)
          /\ UNCHANGED <<appVars, hybrid, retrieved, embedded, inserted>>
    \/ \E id \in StoreIds :
          /\ RemoveVector(1, id)
          /\ Called("removeVector", id, {}, NoMeta)
          /\ UNCHANGED <<appVars, hybrid, retrieved, embedded, inserted>>
    \/ SaveBuild(1) /\ UNCHANGED <<appVars, queryVars>>
    \/ WriteOpen(1) /\ UNCHANGED <<appVars, queryVars>>
    \/ WriteData(1) /\ UNCHANGED <<appVars, queryVars>>
    \/ SaveThrows(1) /\ UNCHANGED <<appVars, queryVars>>

SpecApi == Init /\ [][NextApi]_vars

\* The store of one process after the other, each used by one caller that
\* awaits each call and restores the store with load() or initialize().
NextLoad ==
    \/ \E id \in StoreIds, v \in ShortLongVectors :
          /\ AddVector(1, id, {v}, NoMeta)
          /\ Called("addVector", id, {v}, NoMeta)
          /\ UNCHANGED <<appVars, hybrid, retrieved, embedded, inserted>>
    \/ SaveBuild(1) /\ UNCHANGED <<appVars, queryVars>>
    \/ WriteOpen(1) /\ UNCHANGED <<appVars, queryVars>>
    \/ WriteData(1) /\ UNCHANGED <<appVars, queryVars>>
    \/ /\ Load(1)
       /\ Called("load", "", {}, NoMeta)
       /\ UNCHANGED <<appVars, hybrid, retrieved, embedded, inserted>>
    \/ LoadRead(1) /\ UNCHANGED <<appVars, queryVars>>
    \/ LoadAssign(1) /\ UNCHANGED <<appVars, queryVars>>
    \/ /\ Initialize(1)
       /\ Called("initialize", "", {}, NoMeta)
       /\ UNCHANGED <<appVars, hybrid, retrieved, embedded, inserted>>
    \/ InitializeLoad(1) /\ UNCHANGED <<appVars, queryVars>>
    \/ InitializeRead(1) /\ UNCHANGED <<appVars, queryVars>>
    \/ InitializeAssign(1) /\ UNCHANGED <<appVars, queryVars>>
    \/ /\ StartProcess(dimension)
       /\ last' = NoLast
       /\ UNCHANGED <<appVars, hybrid, retrieved, embedded, inserted>>

SpecLoad == Init /\ [][NextLoad]_vars

\* vectors at right angles, and queries that score them equally or not
TieVectors == {<<1, 0>>, <<0, 1>>}
TieQueries == {<<1, 1>>, <<1, 0>>}

\* The store filled, emptied, restored with load() and searched by one
\* caller that awaits each call and takes the result of a search before it
\* goes on.
NextTies ==
    \/ \E id \in StoreIds, v \in TieVectors :
          /\ searchOut = NoSearch
          /\ AddVector(1, id, {v}, NoMeta)
          /\ Inserted(id)
          /\ UNCHANGED <<appVars, hybrid, retrieved, embedded, last>>
    \/ \E id \in StoreIds :
          /\ searchOut = NoSearch
          /\ RemoveVector(1, id)
          /\ Removed(id)
          /\ UNCHANGED <<appVars, hybrid, retrieved, embedded, last>>
    \/ searchOut = NoSearch /\ SaveBuild(1) /\ UNCHANGED <<appVars, queryVars>>
    \/ searchOut = NoSearch /\ WriteOpen(1) /\ UNCHANGED <<appVars, queryVars>>
    \/ searchOut = NoSearch /\ WriteData(1) /\ UNCHANGED <<appVars, queryVars>>
    \/ searchOut = NoSearch /\ Load(1) /\ UNCHANGED <<appVars, queryVars>>
    \/ searchOut = NoSearch /\ LoadRead(1) /\ UNCHANGED <<appVars, queryVars>>
    \/ searchOut = NoSearch /\ LoadAssign(1) /\ UNCHANGED <<appVars, queryVars>>
    \/ \E q \in TieQueries :
          /\ searchOut = NoSearch
          /\ calls[1].pc = "idle"
          /\ Search(q, {}, NoFilter)
          /\ UNCHANGED <<appVars, queryVars>>
    \/ SearchReturned /\ UNCHANGED <<appVars, queryVars>>

SpecTies == Init /\ [][NextTies]_vars

\* the number of notes of the collection that is reindexed in batches: one
\* more than a batch holds
MaxNotes == 11

\* how many callbacks of a batch may be between the answer of the embedding
\* service and their end at once
MaxAnswered == 2

BatchNoteIds == SubSeq(AllNoteIds, 1, MaxNotes)

BatchSlots == 1..MaxNotes

\* the callbacks that have been started and have not ended
InFlight == {t \in DOMAIN tasks : tasks[t].kind = "reindex" /\ tasks[t].pc # "idle"}

\* the embedding service answers the callbacks of a batch in the order of
\* their requests, at most MaxAnswered callbacks being past their answer
Answerable(t) ==
    /\ \A u \in DOMAIN tasks : u < t => tasks[u].pc # "embed"
    /\ Cardinality({u \in InFlight : tasks[u].pc # "embed"}) < MaxAnswered

InitBatch ==
    /\ vectors = <<>>
    /\ metadata = <<>>
    /\ dimension = 2
    /\ file = NoFile
    /\ clock = 0
    /\ calls = [c \in BatchSlots |-> IdleCall("none")]
    /\ searchOut = NoSearch
    /\ boots = 0
    /\ faults = 0
    /\ notes = [id \in {BatchNoteIds[k] : k \in BatchSlots} |->
                   [state |-> "live", content |-> "c1", hasEmbedding |-> FALSE,
                    isArchived |-> FALSE]]
    /\ embeddings = [id \in {BatchNoteIds[k] : k \in BatchSlots} |-> {}]
    /\ tasks = [t \in BatchSlots |-> IdleTask("none")]
    /\ reqs = NoReindex
    /\ responses = [id \in {BatchNoteIds[k] : k \in BatchSlots} |-> NoResponse]
    /\ hybrid = NoHybrid
    /\ retrieved = NoRetrieval
    /\ embedded = NoEmbedded
    /\ last = NoLast
    /\ inserted = <<>>

\* One reindex of a collection of MaxNotes notes whose pipelines failed at
\* the embedding, with no other request in flight.
NextBatch ==
    \/ reqs.response = "none" /\ ReindexAll /\ UNCHANGED queryVars
    \/ ReindexFound /\ UNCHANGED queryVars
    \/ ReindexCleared /\ UNCHANGED queryVars
    \/ \E t \in BatchSlots : Answerable(t) /\ ReindexEmbedded(t) /\ UNCHANGED queryVars
    \/ \E t \in BatchSlots : ReindexAdded(t) /\ UNCHANGED queryVars
    \/ \E t \in BatchSlots : ReindexUpserted(t) /\ UNCHANGED queryVars
    \/ \E t \in BatchSlots : ReindexFlagged(t) /\ UNCHANGED queryVars
    \/ \E t \in BatchSlots : ReindexFails(t) /\ UNCHANGED queryVars
    \/ ReindexBatchDone /\ UNCHANGED queryVars
    \/ \E c \in BatchSlots : StoreStep(c) /\ UNCHANGED queryVars

SpecBatch == InitBatch /\ [][NextBatch]_vars

\* what the mutating calls write while searches are served: each vector
\* goes with a category of its own
Writes == {[v |-> <<1, 0>>, category |-> "work"], [v |-> <<0, 1>>, category |-> "home"]}

\* the metadata a call gives with the vector of w
MetaOf(w) == [NoMeta EXCEPT !.category = {w.category}]

\* a query that scores the two vectors differently
LiveQueries == {<<2, 1>>}

\* Searches served while up to MaxCalls mutating calls are in flight, their
\* file operations completing in any order: records added, updated and
\* removed, and the store cleared and filled again as reindexAll does.  The
\* caller of a search takes its result before the store is changed again.
NextLive ==
    \/ \E c \in CallIds, id \in StoreIds, w \in Writes :
          /\ searchOut = NoSearch
          /\ AddVector(c, id, {w.v}, MetaOf(w))
          /\ UNCHANGED <<appVars, queryVars>>
    \/ \E c \in CallIds, id \in StoreIds, w \in Writes :
          /\ searchOut = NoSearch
          /\ UpdateVector(c, id, {w.v}, MetaOf(w))
          /\ UNCHANGED <<appVars, queryVars>>
    \/ \E c \in CallIds, id \in StoreIds :
          searchOut = NoSearch /\ RemoveVector(c, id) /\ UNCHANGED <<appVars, queryVars>>
    \/ \E c \in CallIds : searchOut = NoSearch /\ Clear(c) /\ UNCHANGED <<appVars, queryVars>>
    \/ \E c \in CallIds : searchOut = NoSearch /\ SaveBuild(c) /\ UNCHANGED <<appVars, queryVars>>
    \/ \E c \in CallIds : searchOut = NoSearch /\ WriteOpen(c) /\ UNCHANGED <<appVars, queryVars>>
    \/ \E c \in CallIds : searchOut = NoSearch /\ WriteData(c) /\ UNCHANGED <<appVars, queryVars>>
    \/ \E q \in LiveQueries :
          searchOut = NoSearch /\ Search(q, {}, NoFilter) /\ UNCHANGED <<appVars, queryVars>>
    \/ SearchReturned /\ UNCHANGED <<appVars, queryVars>>

SpecLive == Init /\ [][NextLive]_vars

-----------------------------------------------------------------------------
(* Claims *)

\* a Map or an object as the function from its keys to their values
Content(m) == [k \in MapKeys(m) |-> MapGet(m, k)]

\* the persisted snapshot holds exactly the records of the in-memory maps
SnapshotEqualsMemory ==
    /\ file.state = "complete"
    /\ Content(file.snap.vectors) = Content(vectors)
    /\ Content(file.snap.metadata) = Content(metadata)

\* C1 (as claimed): in every reachable state of the store, every stored
\* vector has length exactly D, the configured dimension.  (How addVector
\* and updateVector reach length D - zeros appended, or the first D elements
\* kept - is AdjustVector.)  Violated: load() stores the vectors of a
\* snapshot saved under another dimension as they are.
C1_StoredLengthIsD ==
    \A i \in 1..Len(vectors) : Len(vectors[i].v) = dimension

\* C2 (as claimed): a search given an integer topK = k >= 0 returns at most
\* k results, in non-increasing score order, none of them an excluded id.
\* Violated for k = 0, which search replaces by the default topK.
C2_SearchBounded ==
    (searchOut.out = "ok" /\ searchOut.topK # {}) =>
        LET rs == searchOut.results
            k == CHOOSE x \in searchOut.topK : TRUE
        IN  /\ Len(rs) <= k
            /\ \A i \in 1..Len(rs), j \in 1..Len(rs) :
                   i < j => ScoreGE(rs[i].score, rs[j].score)
            /\ \A i \in 1..Len(rs), ex \in searchOut.filter.excludeIds :
                   rs[i].id \notin ex

\* no call is in flight, none has failed, and one that saves has returned
AllCallsReturnedOk ==
    /\ faults = 0
    /\ \A c \in CallIds : calls[c].pc = "idle"
    /\ \E c \in CallIds : calls[c].out \in {"ok", "true"}

\* C4 (as claimed): whenever all mutating calls issued have returned
\* successfully, the persisted snapshot equals the in-memory maps.
\* Violated when the file writes of two overlapping calls complete out of
\* order.
C4_PersistedWhenReturned == AllCallsReturnedOk => SnapshotEqualsMemory

\* C5 (as claimed): at every moment the snapshot file is absent or holds a
\* complete snapshot, never a partially written one.  Violated: writeFile
\* truncates the file in place before it writes.
C5_SnapshotNeverPartial == file.state # "partial"

\* a process has started and has not been asked anything yet
FreshlyStarted ==
    /\ boots > 0
    /\ \A c \in CallIds : calls[c] = IdleCall("none")

\* C6 (as claimed): after a process restart, before the first call is
\* served, the in-memory store equals the last persisted snapshot.
\* Violated: nothing calls initialize(), the store starts empty.
C6_LoadedAtStart ==
    (FreshlyStarted /\ file.state = "complete") => SnapshotEqualsMemory

Quiescent ==
    /\ reqs.pc = "idle"
    /\ \A t \in CallIds : tasks[t].pc = "idle" /\ calls[t].pc = "idle"

\* C3 (as claimed): in every quiescent state, for every note in storage,
\* hasEmbedding is true if and only if the store holds a record for the note
\* and an association record for the note exists.  Violated: a pipeline
\* whose flag update fails leaves both records with the flag false, and a
\* restarted process has an empty store while the flags stay true.
C3_FlagIffRecords ==
    Quiescent =>
        \A id \in NoteIds :
            notes[id].state = "live" =>
                (notes[id].hasEmbedding <=>
                    (MapHas(vectors, id) /\ embeddings[id] # {}))

\* reindexAll has sent its counts
ReindexCounted == reqs.pc = "idle" /\ reqs.response = "200"

\* C8 (as claimed): when reindexAll over N notes has finished, it reports
\* processed + errors = N and the store holds exactly `processed` records,
\* whichever step of a note is the one that fails.  Violated when a note
\* fails after its store insert: its record stays in the store.
C8_ExactlyProcessed ==
    ReindexCounted =>
        /\ reqs.processed + reqs.errors = Len(reqs.list)
        /\ Len(vectors) = reqs.processed

\* the notes of the reindex whose failure was logged at step pc
FailedAt(pc) == {id \in NoteIds : <<id, pc>> \in reqs.log}

\* C8 (amended): per-note failures never fail reindexAll as a whole (it
\* answers 500 only when no note has been tried), it reports processed +
\* errors = N, and when it finishes the store holds a record for every
\* found note except those that failed at the embedding step: a note that
\* fails at a later step is counted in errors and keeps its record.
C8_CountsAndRecords ==
    /\ reqs.response = "500" => reqs.errors = 0 /\ reqs.processed = 0
    /\ ReindexCounted =>
          /\ reqs.processed + reqs.errors = Len(reqs.list)
          /\ MapKeys(vectors) =
                {reqs.list[i] : i \in 1..Len(reqs.list)} \ FailedAt("embed")
          /\ reqs.processed <= Len(vectors)

\* C8 witness: a reindex of two notes has finished with one note processed
\* and one failed after its store insert, both in the store
C8_Witness ==
    /\ ReindexCounted
    /\ reqs.processed = 1 /\ reqs.errors = 1
    /\ FailedAt("upsert") \cup FailedAt("flag") \cup FailedAt("addVector") # {}
    /\ Len(vectors) = 2

\* reindexAll has answered with success
ReindexDone ==
    /\ reqs.pc = "idle"
    /\ reqs.response \in {"200", "No notes to reindex"}

\* C9 (as claimed): after reindexAll completes, for any prior state and any
\* number of notes, the store and the Embedding collection hold no record
\* for an id that is not a note in storage.  Violated: with no notes the
\* store is not cleared, and association records are never deleted.
C9_NoOrphans ==
    ReindexDone =>
        \A id \in NoteIds :
            notes[id].state # "live" =>
                (~MapHas(vectors, id) /\ embeddings[id] = {})

\* C10: the note write path does not wait for or depend on the pipeline.  A
\* step that sends the success response of createNote or updateNote has the
\* note written with the content it answers, and the pipeline it starts is
\* still at its first await; and a step in which a pipeline fails, at
\* whichever of its awaits, changes neither a note nor a response.
C10_WriteIndependent ==
    [][ /\ \A id \in NoteIds :
             ( /\ responses'[id] # responses[id]
               /\ responses'[id].status \in {"200", "201"}
               /\ responses'[id].content # "" )
             => /\ notes'[id].state = "live"
                /\ notes'[id].content = responses'[id].content
                /\ \A t \in CallIds :
                      (tasks'[t] # tasks[t] /\ tasks'[t].kind = "pipeline")
                          => tasks'[t].pc = "embed"
        /\ \A t \in CallIds :
             (tasks[t].kind = "pipeline" /\ tasks'[t] = IdleTask("failed"))
             => (notes' = notes /\ responses' = responses)
      ]_vars

\* C10 witness: the pipeline of a created note has failed; the note is in
\* storage with the content that was answered with 201
C10_Witness ==
    /\ \E t \in CallIds : tasks[t] = IdleTask("failed")
    /\ \A id \in EditedIds :
          /\ notes[id].state = "live"
          /\ ~notes[id].hasEmbedding
          /\ responses[id] = [status |-> "201", content |-> notes[id].content]

\* C11: deleteNote of an existing note removes the note's store record and
\* its association record, and a failure of either removal neither prevents
\* nor rolls back the note deletion.  Step by step: the step that starts the
\* deletion has removed the record from the store; when removeVector has
\* returned or thrown the deletion goes on and the note is untouched; when
\* the association removal has resolved (the record is gone) or rejected the
\* deletion goes on to Note.deleteOne; and when Note.deleteOne resolves the
\* note is gone and 200 is sent.
C11_DeleteProceeds ==
    [][ boots' = boots =>
        \A t \in CallIds :
          LET id == tasks[t].id
              moved == tasks'[t] # tasks[t]
          IN  /\ (tasks[t].kind # "delete" /\ tasks'[t].kind = "delete")
                    => ~MapHas(vectors', tasks'[t].id)
              /\ (tasks[t].kind = "delete" /\ tasks[t].pc = "removeVector" /\ moved)
                    => /\ tasks'[t].pc \in {"embDelete", "noteDelete"}
                       /\ notes' = notes /\ responses' = responses
              /\ (tasks[t].kind = "delete" /\ tasks[t].pc = "embDelete" /\ moved)
                    => /\ tasks'[t].pc = "noteDelete"
                       /\ faults' = faults => embeddings'[id] = {}
              /\ (tasks[t].kind = "delete" /\ tasks[t].pc = "noteDelete" /\ moved
                       /\ faults' = faults)
                    => /\ notes'[id].state = "deleted"
                       /\ responses'[id] = [status |-> "200", content |-> ""]
      ]_vars

\* C11 witness: a note has been deleted and answered with 200 after the
\* removal of its store record threw; its association record is still there
C11_Witness ==
    /\ faults = 1 /\ boots = 0
    /\ \E t \in CallIds : tasks[t] = IdleTask("done") /\ calls[t].out = "threw"
    /\ \A id \in EditedIds :
          /\ notes[id].state = "deleted"
          /\ responses[id].status = "200"
          /\ embeddings[id] # {}

\* the position of id in list, counted from 0
PositionIn(list, id) == (CHOOSE i \in 1..Len(list) : list[i] = id) - 1

Ids(list) == {list[i] : i \in 1..Len(list)}

\* the reference fusion: what the semantic and the lexical list contribute
\* to an id, and the total
RefSemantic(id) ==
    IF id \in Ids(hybrid.sem)
    THEN Frac(hybrid.w * (Len(hybrid.sem) - PositionIn(hybrid.sem, id)),
              10 * Len(hybrid.sem))
    ELSE FracZero

RefLexical(id) ==
    IF id \in Ids(hybrid.lex)
    THEN Frac((10 - hybrid.w) * (Len(hybrid.lex) - PositionIn(hybrid.lex, id)),
              10 * Len(hybrid.lex))
    ELSE FracZero

RefTotal(id) == FracAdd(RefSemantic(id), RefLexical(id))

\* C12: the ranking of hybridSearch is the reference fusion.  For every
\* semantic list, lexical list, weight and limit L the ranking holds
\* min(L, size of the union) distinct ids of the union, each with the
\* contributions and the total of the reference, in non-increasing order of
\* total, and no id left out has a greater total than one that is in.
C12_FusionIsReference ==
    hybrid.pc = "ranked" =>
        LET out == hybrid.out
            union == Ids(hybrid.sem) \cup Ids(hybrid.lex)
            outIds == {out[i].id : i \in 1..Len(out)}
        IN  /\ Len(out) = Min(hybrid.limit, Cardinality(union))
            /\ Cardinality(outIds) = Len(out)
            /\ outIds \subseteq union
            /\ \A i \in 1..Len(out) :
                  /\ FracEq(out[i].semanticScore, RefSemantic(out[i].id))
                  /\ FracEq(out[i].keywordScore, RefLexical(out[i].id))
                  /\ FracEq(out[i].totalScore, RefTotal(out[i].id))
            /\ \A i \in 1..Len(out), j \in 1..Len(out) :
                  i < j => FracGE(out[i].totalScore, out[j].totalScore)
            /\ \A i \in 1..Len(out), id \in union \ outIds :
                  FracGE(out[i].totalScore, RefTotal(id))

\* C12 witness: a ranking cut by the limit, of two lists that share an id,
\* with a weight strictly between 0 and 1
C12_Witness ==
    /\ hybrid.pc = "ranked"
    /\ Len(hybrid.sem) = 3 /\ Len(hybrid.lex) = 2
    /\ hybrid.w = 5 /\ hybrid.limit = 2
    /\ Ids(hybrid.sem) \cap Ids(hybrid.lex) # {}
    /\ Cardinality(Ids(hybrid.sem) \cup Ids(hybrid.lex)) = 4
    /\ Len(hybrid.out) = 2

\* the rank of id in the ranking of hybridSearch, 0 when it is not in it
RankOf(id) ==
    IF \E i \in 1..Len(hybrid.out) : hybrid.out[i].id = id
    THEN CHOOSE i \in 1..Len(hybrid.out) : hybrid.out[i].id = id
    ELSE 0

\* the ranking of the semantic list [A,B,C] and the lexical list [B,D] under
\* weight 0.7
ExampleRanked ==
    /\ hybrid.pc = "ranked"
    /\ hybrid.sem = <<"A", "B", "C">> /\ hybrid.lex = <<"B", "D">>
    /\ hybrid.w = 7

\* C13: with semantic list [A,B,C], lexical list [B,D] and weight 0.7, A
\* ranks above D and B ranks above every id that is in one list only: under
\* every limit, whichever of the ids are in the ranking come in that order,
\* and B is in it when any id is.
C13_ExampleOrder ==
    ExampleRanked =>
        /\ RankOf("D") > 0 => (RankOf("A") > 0 /\ RankOf("A") < RankOf("D"))
        /\ \A id \in {"A", "C", "D"} :
              RankOf(id) > 0 => (RankOf("B") > 0 /\ RankOf("B") < RankOf(id))
        /\ hybrid.limit >= 4 => \A id \in HybridIds : RankOf(id) > 0

\* C13 witness: the example ranked with a limit that keeps the four ids
C13_Witness ==
    /\ ExampleRanked
    /\ hybrid.limit = 4
    /\ Len(hybrid.out) = 4
    /\ hybrid.out[1].id = "B" /\ hybrid.out[2].id = "A"

\* the search result a retrieval handler worked on, restricted to the ids
\* whose note exists, each with its score
RankedExisting ==
    LET kept == SelectSeq(retrieved.results, LAMBDA r : notes[r.id].state = "live")
    IN  [i \in 1..Len(kept) |-> [id |-> kept[i].id, score |-> {kept[i].score}]]

\* C14 (as claimed): for every retrieval caller the list of entities used
\* or returned is the search result restricted to the ids whose note still
\* exists, in the order of the search result, each with the score search
\* gave it.  Violated: askQuestion, chatWithNotes and getRelatedNotes use
\* the notes in the order Note.find returns them and attach no score;
\* semanticSearch drops archived notes and orders equal scores by the
\* collection.
C14_RankingPreserved ==
    retrieved.caller # "none" => retrieved.out = RankedExisting

\* C15: a failure or timeout of the embedding API never fails the call.
\* For every non-empty text generateEmbedding returns a vector; when the API
\* did not answer with an embedding it is the fallback embedding, of length
\* D; and the fallback embeddings returned for the same text are the same.
C15_FallbackNeverFails ==
    /\ (embedded.out # "none" /\ embedded.text # <<>>) =>
          /\ embedded.out = "returned"
          /\ embedded.vector # {}
          /\ embedded.api # "ok" =>
                /\ embedded.vector = {FallbackEmbedding(embedded.text, dimension)}
                /\ \A e \in embedded.vector : Len(e.v) = dimension
    /\ \A a \in embedded.seen, b \in embedded.seen : a[1] = b[1] => a[2] = b[2]

\* C15 witness: the API timed out, the call returned the fallback embedding
\* of a text of two characters, and every text has had its fallback
C15_Witness ==
    /\ embedded.out = "returned" /\ embedded.api = "timeout"
    /\ Len(embedded.text) = 2
    /\ dimension = 3
    /\ Cardinality(embedded.seen) = Cardinality(TextArgs) - 1

\* the last call of the store API has returned or thrown
Returned(op) == last.op = op /\ calls[1].pc = "idle"

\* the vector the last call was given, adjusted to the dimension
GivenVector == AdjustVector(CHOOSE v \in last.vector : TRUE, dimension)

\* the records of the ids other than the one of the last call are as the
\* call found them
OthersUnchanged ==
    \A id \in MapKeys(last.vectors) \cup MapKeys(vectors) \cup MapKeys(metadata) :
        id # last.id =>
            /\ MapHas(last.vectors, id) /\ MapHas(vectors, id)
            /\ MapGet(vectors, id) = MapGet(last.vectors, id)
            /\ MapHas(metadata, id) /\ MapGet(metadata, id) = MapGet(last.metadata, id)

\* C16 (as claimed): the store holds at most one record per id, and an
\* addVector with an id that has a record overwrites the vector and merges
\* the new metadata into the existing metadata: the keys of the existing
\* metadata that the call does not supply are still there afterwards.
\* Violated: addVector replaces the metadata by the given metadata and
\* addedAt.
C16_AddMerges ==
    /\ \A i \in 1..Len(vectors), j \in 1..Len(vectors) :
          vectors[i].k = vectors[j].k => i = j
    /\ (Returned("addVector") /\ calls[1].out = "ok" /\ MapHas(last.metadata, last.id)) =>
          /\ MapGet(vectors, last.id) = GivenVector
          /\ last.meta.category = {} =>
                MapGet(metadata, last.id).category = MapGet(last.metadata, last.id).category
          /\ MapGet(metadata, last.id).updatedAt = MapGet(last.metadata, last.id).updatedAt

\* C17: updateVector(id, vector, metadata).  When id has no record the maps
\* and the snapshot are what addVector(id, vector, metadata) leaves.  When id
\* has a record the vector is replaced by the adjusted vector, the metadata
\* is the existing metadata with the given keys over it and updatedAt, no
\* other record changes, and the snapshot holds the maps.
C17_UpdateVector ==
    (Returned("updateVector") /\ calls[1].out = "ok") =>
        /\ vectors = MapSet(last.vectors, last.id, GivenVector)
        /\ metadata = MapSet(last.metadata, last.id,
              IF MapHas(last.vectors, last.id)
              THEN [category  |-> IF last.meta.category # {} THEN last.meta.category
                                  ELSE MapGet(last.metadata, last.id).category,
                    addedAt   |-> MapGet(last.metadata, last.id).addedAt,
                    updatedAt |-> {last.clock}]
              ELSE [category  |-> last.meta.category,
                    addedAt   |-> {last.clock},
                    updatedAt |-> {}])
        /\ OthersUnchanged
        /\ SnapshotEqualsMemory

\* C17 witness: an updateVector without a category has returned on a record
\* that had one, next to another record
C17_Witness ==
    /\ Returned("updateVector") /\ calls[1].out = "ok"
    /\ MapHas(last.vectors, last.id)
    /\ last.meta.category = {}
    /\ MapGet(last.metadata, last.id).category # {}
    /\ MapGet(last.vectors, last.id) # GivenVector
    /\ Len(vectors) = 2

\* C18: removeVector(id) returns true exactly when a record for id existed.
\* When id has no record it returns false, starts no save, and leaves the
\* maps and the file as they were; when id has a record, that record alone
\* is removed and, the call having returned true, the snapshot holds the
\* maps.
C18_RemoveVector ==
    last.op = "removeVector" =>
        /\ ~MapHas(last.vectors, last.id) =>
              /\ calls[1] = IdleCall("false")
              /\ vectors = last.vectors /\ metadata = last.metadata
              /\ file = last.file
        /\ MapHas(last.vectors, last.id) =>
              /\ calls[1].out = "true" \/ (calls[1].pc = "idle" /\ calls[1].out = "threw")
              /\ vectors = MapDelete(last.vectors, last.id)
              /\ metadata = MapDelete(last.metadata, last.id)
              /\ OthersUnchanged
              /\ (calls[1].pc = "idle" /\ calls[1].out = "true") => SnapshotEqualsMemory

\* C18 witness: removeVector has returned false on a store whose snapshot
\* holds a record of another id
C18_Witness ==
    /\ Returned("removeVector") /\ calls[1].out = "false"
    /\ Len(vectors) = 1
    /\ file.state = "complete" /\ Len(file.snap.vectors) = 1

\* C19 (as claimed): an addVector with a missing or empty id, or a missing
\* or empty vector, fails and leaves the maps and the snapshot as they
\* were.  Violated: an empty vector is not refused, it is stored as D zeros.
C19_AddValidates ==
    (Returned("addVector") /\ (last.id = "" \/ last.vector \in {{}, {<<>>}})) =>
        /\ calls[1].out = "threw"
        /\ vectors = last.vectors /\ metadata = last.metadata
        /\ file = last.file

\* C20 (as claimed): when the snapshot write fails in addVector(id, v), the
\* call fails, getVector(id) answers with the new vector, and the snapshot
\* still holds the state before the call.  Violated: a writeFile that fails
\* after it opened the file leaves the file truncated.
C20_FailedSaveKeepsSnapshot ==
    (Returned("addVector") /\ calls[1].out = "threw"
        /\ last.id # "" /\ last.vector # {}) =>
        /\ GetVector(last.id) = {GivenVector}
        /\ file = last.file

\* C21 (as claimed): a load with no snapshot file raises no error and leaves
\* the store empty, and a snapshot that cannot be parsed makes the load fail
\* towards the caller that started it, the maps staying as they were: the
\* failure is not turned into an empty store.  Violated: initialize(), which
\* starts load(), catches its error and replaces the maps by empty ones.
\* (faults = 0: fs.mkdir did not fail, the load was started.)
C21_LoadFailurePropagates ==
    (last.op \in {"load", "initialize"} /\ calls[1].pc = "idle" /\ faults = 0) =>
        /\ last.file.state = "absent" =>
              /\ calls[1].out # "threw"
              /\ vectors = <<>> /\ metadata = <<>>
        /\ last.file.state = "partial" =>
              /\ calls[1].out = "threw"
              /\ vectors = last.vectors /\ metadata = last.metadata

\* the value of k in the map m, {} when it has none
Entry(m, k) == IF MapHas(m, k) THEN {MapGet(m, k)} ELSE {}

\* the ids whose record in memory is not the one a crash now would restore
LostIds ==
    {id \in MapKeys(vectors) \cup MapKeys(metadata)
               \cup MapKeys(RestoredVectors) \cup MapKeys(RestoredMetadata) :
        \/ Entry(vectors, id) # Entry(RestoredVectors, id)
        \/ Entry(metadata, id) # Entry(RestoredMetadata, id)}

\* C22 (as claimed): a crash at any point loses at most the most recent
\* mutation.  In every reachable state, what would be restored from the
\* snapshot differs from the maps in memory by at most one mutation: the
\* record of one id (an addVector, updateVector or removeVector), or all
\* records while memory is empty (a clear).  Violated: the mutations of two
\* calls in flight are both missing from the file, and a file opened for
\* writing holds no record at all.
C22_CrashLosesAtMostOne ==
    Cardinality(LostIds) <= 1 \/ (vectors = <<>> /\ metadata = <<>>)

\* C23 (as claimed): search breaks score ties by original insertion order.
\* Of two results with equal scores the one whose id was inserted first
\* comes first, also after an id was added again with a new vector and
\* after load().  Violated: load() takes the records in the property order
\* of the parsed object, where integer-like ids come first.
C23_TiesByInsertion ==
    searchOut.out = "ok" =>
        LET rs == searchOut.results
        IN  \A i \in 1..Len(rs), j \in 1..Len(rs) :
               ( /\ i < j
                 /\ ScoreGE(rs[i].score, rs[j].score)
                 /\ ScoreGE(rs[j].score, rs[i].score) )
               => PositionIn(inserted, rs[i].id) < PositionIn(inserted, rs[j].id)

\* C24: reindexAll processes the notes in batches of 10.  At every moment at
\* most 10 per-note callbacks are in flight; and a callback starts only when
\* no callback is in flight, as one of the at most 10 notes from position i,
\* every note before position i having been counted as processed or as an
\* error.
C24_BatchesOfTen ==
    [][ /\ Cardinality(InFlight') <= 10
        /\ \A t \in DOMAIN tasks :
              (tasks[t].pc = "idle" /\ tasks'[t].pc # "idle") =>
                  /\ InFlight = {}
                  /\ t > reqs'.i /\ t <= reqs'.i + 10
                  /\ reqs'.i % 10 = 0
                  /\ reqs'.processed + reqs'.errors = reqs'.i
      ]_vars

\* C24 witness: the callback of the eleventh note is in flight, the ten
\* notes of the first batch having ended, one of them with a counted error
C24_Witness ==
    /\ reqs.pc = "batch" /\ reqs.i = 10
    /\ InFlight = {11}
    /\ reqs.processed = 9 /\ reqs.errors = 1

\* C25: the pipeline sets hasEmbedding as its last step.  A step sets the
\* flag of a note only as the end of a pipeline of that note that is at its
\* flag update; a pipeline gets there only from an addVector that returned,
\* and to addVector only from the upsert, the association record and the
\* store record being written; and a step in which a pipeline fails leaves
\* every note, so the flag, as it was.
C25_FlagSetLast ==
    [][ /\ \A id \in NoteIds :
             (notes'[id].hasEmbedding /\ ~notes[id].hasEmbedding) =>
                 \E t \in CallIds :
                     /\ tasks[t].kind = "pipeline" /\ tasks[t].id = id
                     /\ tasks[t].pc = "flag"
                     /\ tasks'[t] = IdleTask("done")
        /\ \A t \in CallIds :
             (tasks[t].kind = "pipeline" /\ tasks'[t] # tasks[t] /\ boots' = boots) =>
                 /\ tasks'[t].pc = "flag" =>
                       /\ tasks[t].pc = "addVector"
                       /\ calls[t].pc = "idle" /\ calls[t].out = "ok"
                 /\ tasks'[t].pc = "addVector" =>
                       /\ tasks[t].pc = "upsert"
                       /\ embeddings'[tasks[t].id] = {Md5(tasks[t].content)}
                       /\ MapHas(vectors', tasks[t].id)
                 /\ tasks'[t] = IdleTask("failed") => notes' = notes
      ]_vars

\* C25 witness: the pipeline of a new note failed in its store insert, whose
\* save threw: both records are written and the flag is false
C25_Witness ==
    /\ boots = 0
    /\ \E t \in CallIds : tasks[t] = IdleTask("failed") /\ calls[t].out = "threw"
    /\ \A id \in EditedIds :
          /\ notes[id].state = "live" /\ ~notes[id].hasEmbedding
          /\ responses[id].status = "201"
          /\ MapHas(vectors, id) /\ embeddings[id] # {}

\* C26: a search served while mutating calls are in flight sees whole
\* records only.  In the step in which search returns, every result has an
\* id that is in the store, and its score and its metadata are those of one
\* write: the score is the score of the vector of a call and the category is
\* the category the same call gave.
C26_SearchSeesWholeRecords ==
    [][ (searchOut' # searchOut /\ searchOut'.out = "ok") =>
           \A i \in 1..Len(searchOut'.results) :
               LET r == searchOut'.results[i]
               IN  /\ MapHas(vectors, r.id) /\ MapHas(vectors', r.id)
                   /\ \E w \in Writes :
                         /\ r.metadata.category = {w.category}
                         /\ r.score = Score(searchOut'.q, AdjustVector(w.v, dimension))
      ]_vars

\* C26 witness: a search has returned two results while two mutating calls
\* were in flight, one of them on a record that had been written before with
\* the other vector
C26_Witness ==
    /\ searchOut.out = "ok" /\ Len(searchOut.results) = 2
    /\ \A c \in CallIds : calls[c].pc # "idle"
    /\ file.state = "complete"
    /\ \E i \in 1..Len(file.snap.vectors) :
          /\ MapHas(vectors, file.snap.vectors[i].k)
          /\ MapGet(vectors, file.snap.vectors[i].k) # file.snap.vectors[i].v

\* C27 (as claimed): in every quiescent state, for every note with a record
\* in the store, the stored vector and the textHash of the association
\* record were computed from the current content of the note, however the
\* pipelines of successive edits interleave (no step having failed, no
\* process restarted).  Violated: the pipeline of an earlier edit that ends
\* after the pipeline of a later one leaves its vector and its hash.
C27_ReflectsCurrentContent ==
    (Quiescent /\ faults = 0 /\ boots = 0) =>
        \A id \in NoteIds :
            (notes[id].state = "live" /\ MapHas(vectors, id)) =>
                /\ MapGet(vectors, id) =
                      AdjustVector(EmbeddingOf(notes[id].content), dimension)
                /\ embeddings[id] = {Md5(notes[id].content)}

\* C28 (as claimed): in every quiescent state every id with a record in the
\* store is the id of an existing note, however deleteNote interleaves with
\* a pipeline of the same note (no step having failed, no process
\* restarted).  Violated: a pipeline that reaches its store insert after
\* deleteNote removed the record puts the record back.
C28_NoOrphanVectors ==
    (Quiescent /\ faults = 0 /\ boots = 0) =>
        \A id \in MapKeys(vectors) : id \in NoteIds /\ notes[id].state = "live"

\* the handlers that retrieve notes for a request
RetrievalHandlers ==
    {"semanticSearch", "hybridSearch", "askQuestion", "chatWithNotes", "getRelatedNotes"}

\* C29: every note that a retrieval handler answers to a request was created
\* by the user of the request.
C29_UserIsolation ==
    retrieved.caller \in RetrievalHandlers
        => \A i \in 1..Len(retrieved.out) :
              NoteOwner[retrieved.out[i].id] = retrieved.user

\* C30: semanticSearch and hybridSearch answer no note that is archived,
\* whichever of the two rankings of hybridSearch the note came from.
C30_ArchivedExcluded ==
    retrieved.caller \in {"semanticSearch", "hybridSearch"}
        => \A i \in 1..Len(retrieved.out) :
              ~notes[retrieved.out[i].id].isArchived

====
